---- MODULE Spec2Model ----
(***************************************************************************)
(* Client-side state reconciliation of the media library front end:         *)
(*   - the scan registry   (frontend/src/store/library.jsx)                 *)
(*   - the media item cache (store/mediaLibrary, src/unnamed/part_004)      *)
(*                                                                          *)
(* Representation.  A JavaScript object is a function from its keys to its  *)
(* values.  null and undefined are not told apart by the operators the code *)
(* applies to scan records (??, ||, == null), so a numeric field that is    *)
(* null or missing holds NULL and a string field that is null, missing or   *)
(* '' holds "".  Timestamps (ISO strings in the code) are readings of the   *)
(* clock `now`; every timestamp string is truthy.  Media items are merged   *)
(* with object spread, where a missing key and a null value differ, so they *)
(* are functions whose DOMAIN is exactly the keys the object owns.          *)
(* Job ids and bucket keys are strings: String(x) of a string is x.         *)
(***************************************************************************)
EXTENDS Integers, Sequences, FiniteSets, TLC

VARIABLES
    prefs,              \* notifications store: prefs.notifications.updates
    saved,              \* the preferences the backend holds for the user
    captured,           \* LoginForm: notifStore.prefs of the render a running handleSubmit closed over
    saving,             \* the preferences request in flight (<<>> when none)
    prompt,             \* update prompt store: open, version
    offered,            \* the versions of the update notifications on screen
    libraries,          \* library store: libraries
    libLoading,         \* library store: loading
    libError,           \* library store: error ("" is null)
    selectedLibrary,    \* library store: selectedLibraryId
    scans,              \* library store: bucket key -> list of scan jobs
    scansLoading,       \* library store: scansLoading
    items,              \* media store: items
    total,              \* media store: total
    loading,            \* media store: loading
    error,              \* media store: error
    selectedLibraryId,  \* media store: selectedLibraryId
    activeItem,         \* media store: activeItem (the empty object is null)
    activeProgress,     \* media store: activeProgress (the empty object is null)
    activeItemLoading,  \* media store: activeItemLoading
    resumePrompt,       \* media store: resumePrompt (the empty object is null)
    metadataRequestCache, \* media store module: item id -> time of the last refresh request
    scanEntry,          \* a scan record, as the backend or an earlier pass of the
                        \* normalizer gives it
    episodes,           \* detail modal: episodes (the fetched episode list of the show)
    video,              \* video store: the metadata of the last showVideo call (the
                        \* empty object before the first one)
    pending,            \* requests awaiting their response (bag: request -> count)
    rejected,           \* the handler that ran last threw to its caller (rejected promise)
    history,            \* history of the view's requests: newestFetch, the library of the
                        \* newest fetchItems; newestOpen, the item of the newest openItem
                        \* (NULL once closed); beforeOpen, the detail and list state when
                        \* the newest openItem was called; refresh, per item id the time
                        \* of the newest refresh request, whether a refresh request of
                        \* the id failed since, and the number of requests issued;
                        \* removed, the ids the newest removeItems took out of the cache
    now,                \* the clock read by new Date()
    nops,               \* number of handlers run so far (bounded exploration)
    last                \* the handler that ran last

vars == <<libraries, libLoading, libError, selectedLibrary, scans, scansLoading,
          items, total, loading, error, selectedLibraryId,
          activeItem, activeProgress, activeItemLoading, resumePrompt,
          metadataRequestCache, scanEntry, episodes, video, pending, rejected, history, now,
          nops, last,
         prefs, saved, captured, saving, prompt, offered>>

libraryVars == <<libraries, libLoading, libError, selectedLibrary>>
detailVars == <<activeItem, activeProgress, activeItemLoading, resumePrompt>>
modalVars == <<episodes, video>>
normalizerVars == <<scanEntry>>
updateVars == <<prefs, saved, captured, saving, prompt, offered>>

scanVars  == <<scans, scansLoading>>
mediaVars == <<items, total, loading, error, selectedLibraryId, metadataRequestCache>>

----------------------------------------------------------------------------
(* Bounds of the exploration *)

MaxTime == 2
MaxScanOps == 2
MaxTriggerOps == 4
MaxMediaOps == 4
MaxDetailOps == 6
MaxRefreshOps == 6
MaxPending == 2
MaxUpsert == 2
MaxResumeOps == 3
MaxPlaybackOps == 5
MaxRemoveOps == 4
MaxNormalizeOps == 2
MaxAliasOps == 4
MaxLibraryOps == 5
MaxCooldownOps == 7
MaxUpdateOps == 9
MaxElapsedDays == 8
MaxEpisodes == 2
MaxDurationMs == 100

----------------------------------------------------------------------------
(* Values *)

NULL == -1

\* Date.now() counts milliseconds; the clock starts well after the epoch and
\* advances in steps of half the refresh cooldown
METADATA_REFRESH_COOLDOWN_MS == 60000
TickMs == METADATA_REFRESH_COOLDOWN_MS \div 2
StartTime == 10 * METADATA_REFRESH_COOLDOWN_MS

Spread(a, b) ==
    [k \in DOMAIN a \cup DOMAIN b |-> IF k \in DOMAIN b THEN b[k] ELSE a[k]]

\* x ?? y on numbers
Coalesce(x, y) == IF x # NULL THEN x ELSE y

\* x || y on strings
OrElse(x, y) == IF x # "" THEN x ELSE y

\* record.key of a possibly missing numeric / string key
GetN(r, k) == IF k \in DOMAIN r THEN r[k] ELSE NULL
GetS(r, k) == IF k \in DOMAIN r THEN r[k] ELSE ""

\* bucket key of a library id: JavaScript property names are strings
KeyOf(libraryId) ==
    CASE libraryId = 5 -> "5"
      [] libraryId = 2 -> "2"
      [] OTHER -> "all"

Bucket(key) == IF key \in DOMAIN scans THEN scans[key] ELSE <<>>

----------------------------------------------------------------------------
(* Progress normalizer *)

\* a scan record that is null or undefined
NullScan == [isNull |-> TRUE]

\* variant: the alias is taken from the input's processed where it has one
normalizeScanEntry_AliasFromInput(scan) ==
    IF scan = NullScan THEN scan
    ELSE
    LET p0 == Coalesce(GetN(scan, "processed_files"), GetN(scan, "processed"))
        p1 == IF p0 = NULL /\ GetS(scan, "status") = "completed"
                 /\ GetN(scan, "total_files") # NULL
              THEN scan["total_files"] ELSE p0
        p2 == IF p1 = NULL THEN 0 ELSE p1
    IN  Spread(scan, [processed |-> p2,
                      processed_files |-> Coalesce(GetN(scan, "processed"), p2)])

\* variant: the fields of the input are spread over the computed counters
normalizeScanEntry_InputOverCounters(scan) ==
    IF scan = NullScan THEN scan
    ELSE
    LET p0 == Coalesce(GetN(scan, "processed_files"), GetN(scan, "processed"))
        p1 == IF p0 = NULL /\ GetS(scan, "status") = "completed"
                 /\ GetN(scan, "total_files") # NULL
              THEN scan["total_files"] ELSE p0
        p2 == IF p1 = NULL THEN 0 ELSE p1
    IN  Spread([processed |-> p2, processed_files |-> p2], scan)

normalizeScanEntry(scan) ==
    IF scan = NullScan THEN scan
    ELSE
    LET p0 == Coalesce(GetN(scan, "processed_files"), GetN(scan, "processed"))
        p1 == IF p0 = NULL /\ GetS(scan, "status") = "completed"
                 /\ GetN(scan, "total_files") # NULL
              THEN scan["total_files"] ELSE p0
        p2 == IF p1 = NULL THEN 0 ELSE p1
    IN  Spread(scan, [processed |-> p2, processed_files |-> p2])

\* scan records with each of the fields the normalizer reads missing, null
\* or set, and the null record
ScanRecords ==
    { Spread(Spread(Spread(Spread([id |-> "abc"], s), pf), p), t) :
         s \in {<<>>, [status |-> "running"], [status |-> "completed"]},
         pf \in {<<>>, [processed_files |-> NULL], [processed_files |-> 0],
                 [processed_files |-> 2]},
         p \in {<<>>, [processed |-> NULL], [processed |-> 4]},
         t \in {<<>>, [total_files |-> NULL], [total_files |-> 10]} }
      \cup { <<>>, NullScan }

\* one pass of the normalizer over the record
Normalize ==
    /\ scanEntry' = normalizeScanEntry(scanEntry)
    /\ UNCHANGED <<libraryVars, scanVars, mediaVars, detailVars, modalVars, pending,
                   rejected, history, now>>
    /\ UNCHANGED updateVars

----------------------------------------------------------------------------
(* Inputs: push events *)

\* event.media_item: a list holding the embedded item, empty when there is none
NoItem == <<>>

BlankEvent ==
    [scan_id |-> "", library_id |-> NULL, library_name |-> "", status |-> "",
     summary |-> "", message |-> "", total |-> NULL, files |-> NULL,
     processed_files |-> NULL, processed |-> NULL, new_files |-> NULL,
     updated_files |-> NULL, removed_files |-> NULL, matched |-> NULL,
     unmatched |-> NULL, media_item |-> NoItem]

EventLibraries == {NULL, 5}
EventStatuses == {"", "progress", "completed"}

\* the progress counters an event carries
EventCounters ==
    { [processed_files |-> NULL],
      [processed_files |-> 2, files |-> 10],
      [processed_files |-> 15, processed |-> 4, total |-> 10, files |-> 20],
      [processed |-> 4] }

\* the descriptive fields an event carries
EventDetails ==
    { [summary |-> ""],
      [summary |-> "s", library_name |-> "Movies", new_files |-> 3,
       updated_files |-> 1, removed_files |-> 0, matched |-> 4, unmatched |-> 1],
      [message |-> "m"] }

ScanEvents ==
    { Spread(Spread(Spread(BlankEvent, c), d),
             [scan_id |-> "abc", library_id |-> l, status |-> s]) :
        l \in EventLibraries, s \in EventStatuses,
        c \in EventCounters, d \in EventDetails }

\* an event without a job id
MalformedEvents ==
    { Spread(BlankEvent, [library_id |-> 5, status |-> "completed", total |-> 10]) }

----------------------------------------------------------------------------
(* Inputs: scan jobs as the backend returns them *)

BackendJob(id, lib, status, tot, proc, fin) ==
    [id |-> id, library |-> lib, library_name |-> "Movies", status |-> status,
     summary |-> "", total_files |-> tot, processed_files |-> proc,
     new_files |-> 3, updated_files |-> 0, removed_files |-> 0,
     matched_items |-> 0, unmatched_files |-> 0,
     created_at |-> 0, started_at |-> 0, finished_at |-> fin]

BackendJobs ==
    { BackendJob("abc", 5, "running", 10, 4, NULL),
      BackendJob("abc", 5, "completed", 10, NULL, 0),
      BackendJob("old", 5, "completed", 7, 7, 0) }

\* backend jobs and events that carry the count under both names, with
\* different values or with only the alias set
AliasJobs ==
    { Spread(BackendJob("abc", 5, "running", 10, 4, NULL), [processed |-> 3]),
      Spread(BackendJob("abc", 5, "running", 10, NULL, NULL), [processed |-> 3]),
      Spread(BackendJob("old", 5, "completed", 7, NULL, 0), [processed |-> NULL]) }

AliasEvents ==
    { Spread(BlankEvent, [scan_id |-> "abc", library_id |-> 5, status |-> "progress"] ),
      Spread(BlankEvent, [scan_id |-> "abc", library_id |-> 5, status |-> "progress",
                          processed_files |-> 15, processed |-> 4, total |-> 20]),
      Spread(BlankEvent, [scan_id |-> "abc", library_id |-> NULL, status |-> "completed",
                          processed |-> 4]) }

\* a page of the scan list: the backend returns each job once
ScanPages ==
    {<<>>} \cup { <<j>> : j \in BackendJobs }
           \cup { <<j, k>> : j \in {b \in BackendJobs : b.id = "abc"},
                             k \in {b \in BackendJobs : b.id = "old"} }

\* the library list as the backend returns it
LibraryPages ==
    { <<>>, <<[id |-> 5, name |-> "Movies"], [id |-> 2, name |-> "Shows"]>> }

----------------------------------------------------------------------------
(* Requests in flight *)

Requests ==
    { [op |-> "fetchScans", arg |-> l] : l \in {NULL, 5} }
      \cup { [op |-> "fetchLibraries", arg |-> NULL] }
      \cup { [op |-> "triggerScan", arg |-> 5] }
      \cup { [op |-> "fetchItems", arg |-> l] : l \in {2, 5} }
      \cup { [op |-> "refreshMediaItemMetadata", arg |-> id] : id \in {1, 2, 3} }
      \cup { [op |-> "openItem", arg |-> id] : id \in {1, 3} }
      \cup { [op |-> "requestResume", arg |-> 9] }
      \cup { [op |-> "getMediaItemEpisodes", arg |-> 3] }
      \cup { [op |-> "createLibrary", arg |-> NULL] }
      \cup { [op |-> o, arg |-> 5] : o \in {"updateLibrary", "deleteLibrary"} }
      \cup { [op |-> o, arg |-> NULL] : o \in {"cancelLibraryScan", "deleteLibraryScan"} }

RECURSIVE SumOver(_, _)
SumOver(f, S) ==
    IF S = {} THEN 0
    ELSE LET x == CHOOSE y \in S : TRUE IN f[x] + SumOver(f, S \ {x})

NPending == SumOver(pending, DOMAIN pending)

Issue(req) == [pending EXCEPT ![req] = @ + 1]
Settle(req) == [pending EXCEPT ![req] = @ - 1]

----------------------------------------------------------------------------
(* Scan registry *)

\* items.findIndex(scan => String(scan.id) === String(scanId)); 0 when absent
FindIndex(list, scanId) ==
    LET hits == {i \in 1..Len(list) : list[i]["id"] = scanId}
    IN  IF hits = {} THEN 0 ELSE CHOOSE i \in hits : \A j \in hits : i <= j

\* the entry built from the event and the stored entry (index 0: none stored)
UpdatedEntry(list, event, libraryId, t) ==
    LET index == FindIndex(list, event.scan_id)
        old == IF index > 0 THEN list[index] ELSE <<>>
        processedValue ==
            Coalesce(event.processed_files,
            Coalesce(event.processed,
            Coalesce(GetN(old, "processed_files"),
            Coalesce(GetN(old, "processed"), 0))))
    IN  [id |-> event.scan_id,
         library |-> libraryId,
         library_name |-> OrElse(event.library_name, ""),
         status |-> OrElse(event.status, "running"),
         summary |-> OrElse(event.summary,
                        OrElse(event.message, OrElse(GetS(old, "summary"), ""))),
         matched_items |-> Coalesce(event.matched, GetN(old, "matched_items")),
         unmatched_files |-> Coalesce(event.unmatched, GetN(old, "unmatched_files")),
         total_files |-> Coalesce(event.total,
                            Coalesce(event.files, GetN(old, "total_files"))),
         new_files |-> Coalesce(event.new_files, GetN(old, "new_files")),
         updated_files |-> Coalesce(event.updated_files, GetN(old, "updated_files")),
         removed_files |-> Coalesce(event.removed_files, GetN(old, "removed_files")),
         processed |-> processedValue,
         processed_files |-> processedValue,
         created_at |-> Coalesce(GetN(old, "created_at"), t),
         finished_at |-> IF event.status = "completed" THEN t
                         ELSE GetN(old, "finished_at"),
         updated_at |-> t]

updateList(list, event, libraryId, t) ==
    LET index == FindIndex(list, event.scan_id)
        updatedEntry == UpdatedEntry(list, event, libraryId, t)
    IN  IF index > 0
        THEN [list EXCEPT ![index] = normalizeScanEntry(Spread(list[index], updatedEntry))]
        ELSE <<normalizeScanEntry(updatedEntry)>> \o list

keysToUpdate(libraryId) ==
    IF libraryId # NULL THEN {KeyOf(libraryId), "all"} ELSE {"all"}

ScansAfterEvent(event) ==
    LET libraryId == event.library_id
        keys == keysToUpdate(libraryId)
    IN  [k \in DOMAIN scans \cup keys |->
            IF k \in keys THEN updateList(Bucket(k), event, libraryId, now)
            ELSE scans[k]]

----------------------------------------------------------------------------
(* Media item cache *)

EmptyObj == <<>>

Has(obj, k) == k \in DOMAIN obj

toLowerCase(s) ==
    CASE s = "A" -> "a"
      [] s = "B" -> "b"
      [] s = "C" -> "c"
      [] OTHER -> s

\* position of a lower-case title in the collation order
Collation(s) ==
    CASE s = "" -> 0
      [] s = "a" -> 1
      [] s = "b" -> 2
      [] s = "c" -> 3

\* x.localeCompare(y) for lower-case titles: negative, zero or positive
localeCompare(x, y) == Collation(x) - Collation(y)

\* (a.sort_title || a.title || '').toLowerCase()
SortKey(a) == toLowerCase(OrElse(GetS(a, "sort_title"), OrElse(GetS(a, "title"), "")))

Compare(a, b) == localeCompare(SortKey(a), SortKey(b))

\* Array.prototype.sort is stable: x goes behind every element not greater than it
\* variant: an unstable sort, x goes in front of the elements equal to it
RECURSIVE InsertSorted_Unstable(_, _)
InsertSorted_Unstable(sorted, x) ==
    IF sorted = <<>> THEN <<x>>
    ELSE IF Compare(sorted[Len(sorted)], x) < 0 THEN Append(sorted, x)
    ELSE Append(InsertSorted_Unstable(SubSeq(sorted, 1, Len(sorted) - 1), x),
                sorted[Len(sorted)])

RECURSIVE InsertSorted(_, _)
InsertSorted(sorted, x) ==
    IF sorted = <<>> THEN <<x>>
    ELSE IF Compare(sorted[Len(sorted)], x) <= 0 THEN Append(sorted, x)
    ELSE Append(InsertSorted(SubSeq(sorted, 1, Len(sorted) - 1), x), sorted[Len(sorted)])

RECURSIVE SortItems(_)
SortItems(list) ==
    IF list = <<>> THEN <<>>
    ELSE InsertSorted(SortItems(SubSeq(list, 1, Len(list) - 1)), list[Len(list)])

\* Map.get / Map.set on a Map kept as the list of its values in insertion order
MapIndex(m, id) ==
    LET hits == {i \in 1..Len(m) : m[i]["id"] = id}
    IN  IF hits = {} THEN 0 ELSE CHOOSE i \in hits : TRUE

MapGet(m, id) == IF MapIndex(m, id) > 0 THEN m[MapIndex(m, id)] ELSE EmptyObj

MapSet(m, id, value) ==
    IF MapIndex(m, id) > 0 THEN [m EXCEPT ![MapIndex(m, id)] = value]
    ELSE Append(m, value)

\* state.items.forEach(item => byId.set(item.id, item))
RECURSIVE ById(_)
ById(list) ==
    IF list = <<>> THEN <<>>
    ELSE LET x == list[Len(list)]
         IN  MapSet(ById(SubSeq(list, 1, Len(list) - 1)), x["id"], x)

\* the guards of the forEach body: true when the incoming item is skipped
Skipped(incoming, selected) ==
    \/ ~Has(incoming, "id")
    \/ /\ Has(incoming, "library")
       /\ incoming["library"] # selected

\* variant: the cached fields win over the incoming ones
RECURSIVE MergeIncoming_ExistingWins(_, _, _)
MergeIncoming_ExistingWins(byId, itemsToUpsert, selected) ==
    IF itemsToUpsert = <<>> THEN byId
    ELSE LET incoming == Head(itemsToUpsert)
             next == IF Skipped(incoming, selected) THEN byId
                     ELSE MapSet(byId, incoming["id"],
                                 Spread(incoming, MapGet(byId, incoming["id"])))
         IN  MergeIncoming_ExistingWins(next, Tail(itemsToUpsert), selected)

RECURSIVE MergeIncoming(_, _, _)
MergeIncoming(byId, itemsToUpsert, selected) ==
    IF itemsToUpsert = <<>> THEN byId
    ELSE LET incoming == Head(itemsToUpsert)
             next == IF Skipped(incoming, selected) THEN byId
                     ELSE MapSet(byId, incoming["id"],
                                 Spread(MapGet(byId, incoming["id"]), incoming))
         IN  MergeIncoming(next, Tail(itemsToUpsert), selected)

\* <<items, total>> after upsertItems(itemsToUpsert)
upsertItems(itemsToUpsert, its, tot, selected) ==
    IF itemsToUpsert = <<>> \/ selected = NULL THEN <<its, tot>>
    ELSE LET sorted == SortItems(MergeIncoming(ById(its), itemsToUpsert, selected))
         IN  <<sorted, Len(sorted)>>

----------------------------------------------------------------------------
(* Background metadata refresh *)

RefreshRequest(id) == [op |-> "refreshMediaItemMetadata", arg |-> id]

\* the history of refresh requests after a call of queueMetadataRefresh at
\* time t that took the requests in flight from before to after
Logged(log, before, after, t) ==
    [id \in DOMAIN log |->
        IF after[RefreshRequest(id)] > before[RefreshRequest(id)]
        THEN [at |-> t, failed |-> FALSE, n |-> log[id].n + 1]
        ELSE log[id]]

shouldRefreshMetadata(item) ==
    /\ Has(item, "id")
    /\ ~Has(item, "poster_url") \/ ~Has(item, "metadata_last_synced_at")

MapDelete(cache, id) == [k \in DOMAIN cache \ {id} |-> cache[k]]

\* variant: the cooldown is not looked at
RECURSIVE queueMetadataRefresh_NoCooldown(_, _, _, _)
queueMetadataRefresh_NoCooldown(list, force, t, q) ==
    IF list = <<>> THEN q
    ELSE LET item == Head(list)
             next ==
                IF ~shouldRefreshMetadata(item)
                THEN IF Has(item, "id")
                     THEN [q EXCEPT !.cache = MapDelete(q.cache, item["id"])]
                     ELSE q
                ELSE [cache |-> Spread(q.cache, [k \in {item["id"]} |-> t]),
                      pending |-> [q.pending EXCEPT ![RefreshRequest(item["id"])] = @ + 1]]
         IN  queueMetadataRefresh_NoCooldown(Tail(list), force, t, next)

\* variant: force is not looked at
RECURSIVE queueMetadataRefresh_IgnoresForce(_, _, _, _)
queueMetadataRefresh_IgnoresForce(list, force, t, q) ==
    IF list = <<>> THEN q
    ELSE LET item == Head(list)
             lastRequested == IF item["id"] \in DOMAIN q.cache THEN q.cache[item["id"]] ELSE 0
             next ==
                IF ~shouldRefreshMetadata(item)
                THEN IF Has(item, "id")
                     THEN [q EXCEPT !.cache = MapDelete(q.cache, item["id"])]
                     ELSE q
                ELSE IF t - lastRequested < METADATA_REFRESH_COOLDOWN_MS
                THEN q
                ELSE [cache |-> Spread(q.cache, [k \in {item["id"]} |-> t]),
                      pending |-> [q.pending EXCEPT ![RefreshRequest(item["id"])] = @ + 1]]
         IN  queueMetadataRefresh_IgnoresForce(Tail(list), force, t, next)

\* the cooldown cache and the requests in flight after queueMetadataRefresh(list),
\* called at time t; q is [cache, pending] before the call
RECURSIVE queueMetadataRefresh(_, _, _, _)
queueMetadataRefresh(list, force, t, q) ==
    IF list = <<>> THEN q
    ELSE LET item == Head(list)
             lastRequested == IF item["id"] \in DOMAIN q.cache THEN q.cache[item["id"]] ELSE 0
             next ==
                IF ~shouldRefreshMetadata(item)
                THEN IF Has(item, "id")
                     THEN [q EXCEPT !.cache = MapDelete(q.cache, item["id"])]
                     ELSE q
                ELSE IF ~force /\ t - lastRequested < METADATA_REFRESH_COOLDOWN_MS
                THEN q
                ELSE [cache |-> Spread(q.cache, [k \in {item["id"]} |-> t]),
                      pending |-> [q.pending EXCEPT
                                     ![[op |-> "refreshMediaItemMetadata",
                                        arg |-> item["id"]]] = @ + 1]]
         IN  queueMetadataRefresh(Tail(list), force, t, next)

----------------------------------------------------------------------------
(* Inputs: media items *)

LibraryIds == {2, 5}

\* the ids of the items each library owns
ItemIdsOf(libraryId) == IF libraryId = 5 THEN {1, 2} ELSE {3}

\* partial items as list updates and push events carry them
IncomingItems ==
    { [id |-> 1, library |-> 2, title |-> "B"],
      [id |-> 1, sort_title |-> "c"],
      [id |-> 2, title |-> "b"],
      [title |-> "b"] }

RECURSIVE ListsUpTo(_, _)
ListsUpTo(S, n) ==
    IF n = 0 THEN {<<>>}
    ELSE LET shorter == ListsUpTo(S, n - 1)
         IN  shorter \cup { Append(l, x) : l \in {m \in shorter : Len(m) = n - 1}, x \in S }

UpsertLists == ListsUpTo(IncomingItems, MaxUpsert)

\* items of one library as the list endpoint returns them, each item once and
\* with its metadata synced
BackendItems(libraryId) ==
    { [id |-> i, library |-> libraryId, title |-> t, poster_url |-> "p",
       metadata_last_synced_at |-> 0] :
        i \in ItemIdsOf(libraryId), t \in {"a", "B"} }

ItemPages(libraryId) ==
    {<<>>} \cup { <<x>> : x \in BackendItems(libraryId) }
           \cup { pg \in { <<x, y>> : x \in BackendItems(libraryId),
                                        y \in BackendItems(libraryId) } :
                      pg[1].id # pg[2].id }

\* the response envelope: count is NULL when the envelope has no count
ItemResponses(libraryId) ==
    { [results |-> pg, count |-> c] : pg \in ItemPages(libraryId), c \in {NULL, 7} }

\* the library that owns an item
OwnerOf(id) == IF id \in ItemIdsOf(5) THEN 5 ELSE 2

\* a watch progress record and the resume information the backend gives for it
WatchProgress == [id |-> 9, position_ms |-> 50, duration_ms |-> 100]
ResumeInfo == [progress_id |-> 9, position_ms |-> 50]

\* the full item the detail endpoint returns for an id: with or without watch
\* progress, with its metadata synced or still missing its poster
DetailItems(id) ==
    LET full == [id |-> id, library |-> OwnerOf(id), title |-> "a",
                 poster_url |-> "p", metadata_last_synced_at |-> 0]
    IN  { full,
          Spread(full, [watch_progress |-> WatchProgress]),
          [id |-> id, library |-> OwnerOf(id), title |-> "a"] }

\* list items still waiting for their metadata, and one that has it
UnsyncedItems ==
    { [id |-> 1, library |-> 5, title |-> "a"],
      [id |-> 1, library |-> 5, title |-> "a", poster_url |-> "p"] }

SyncedItem ==
    [id |-> 2, library |-> 5, title |-> "b", poster_url |-> "p",
     metadata_last_synced_at |-> 0]

\* list responses in which item 1 stays without its metadata
UnsyncedResponses ==
    { [results |-> pg, count |-> NULL] :
        pg \in { <<x>> : x \in UnsyncedItems }
                 \cup { <<SyncedItem, x>> : x \in UnsyncedItems } }

\* events whose payload is an embedded media item
ItemEvents ==
    { Spread(BlankEvent, [scan_id |-> "abc", library_id |-> 5, status |-> "progress",
                          media_item |-> <<it>>]) : it \in IncomingItems }

\* the same events without a job id
MalformedItemEvents ==
    { Spread(event, [scan_id |-> ""]) : event \in ItemEvents }

\* the events of a scan that was just triggered
TriggerEvents ==
    { Spread(BlankEvent, [scan_id |-> "abc", library_id |-> 5, status |-> st,
                          processed_files |-> 2, files |-> 10]) :
        st \in {"progress", "completed"} }

----------------------------------------------------------------------------
(* Update notification: store/notifications (prefs.notifications.updates),
   store/updatePrompt, components/forms/LoginForm.jsx and
   components/UpdatePromptManager.jsx.  last_shown_at is an instant in
   milliseconds (NULL when unset): toISOString and new Date(...) keep the
   millisecond, so the instant read back is the instant written. *)

defaultPrefs == [policy |-> "on_login", ignored_versions |-> <<>>, last_shown_at |-> NULL]

\* what API.getLatestRelease answers
Releases ==
    { [is_newer |-> TRUE, latest_version |-> "2.0"],
      [is_newer |-> FALSE, latest_version |-> "1.0"] }

\* the updates part of normalize(prefs): the incoming record replaces the default one
normalize(incoming) == IF incoming = EmptyObj THEN defaultPrefs ELSE incoming

\* the frame of the update handlers
otherVars == <<libraryVars, scanVars, mediaVars, detailVars, modalVars, normalizerVars,
               pending, rejected>>

\* the module of the store is evaluated again: the page is loaded anew
Reload ==
    /\ captured = EmptyObj
    /\ saving = EmptyObj
    /\ prefs' = defaultPrefs
    /\ prompt' = [open |-> FALSE, version |-> ""]
    /\ offered' = <<>>
    /\ UNCHANGED <<otherVars, saved, captured, saving, history, now>>

\* the preferences of the user who logs in reach the store while handleSubmit
\* awaits login and initData (the caller of loadFromUser is outside these files)
loadFromUser(user) ==
    /\ captured # EmptyObj
    /\ prefs' = normalize(user)
    /\ UNCHANGED <<otherVars, saved, captured, saving, prompt, offered, history, now>>

setUpdatePolicy(policy) ==
    /\ prefs' = [prefs EXCEPT !.policy = policy]
    /\ history' = [history EXCEPT !.declinedNever = @ /\ policy = "never"]
    /\ UNCHANGED <<otherVars, saved, captured, saving, prompt, offered, now>>

\* handleSubmit is called: it reads the store through notifStore, the state
\* object of the render that created it, for as long as it runs
handleSubmit ==
    /\ captured = EmptyObj
    /\ captured' = prefs
    /\ history' = [history EXCEPT !.declinedAtSubmit =
                       [never |-> history.declinedNever,
                        versions |-> history.declinedVersions]]
    /\ UNCHANGED <<otherVars, prefs, saved, saving, prompt, offered, now>>

\* the policy gate of handleSubmit
allow(updates, t) ==
    LET policy == IF updates.policy = "" THEN "on_login" ELSE updates.policy
    IN  CASE policy = "never" -> FALSE
          [] policy = "on_login" -> TRUE
          [] policy \in {"daily", "weekly"} ->
                LET threshold == IF policy = "daily" THEN 24 * 3600 * 1000
                                 ELSE 7 * 24 * 3600 * 1000
                IN  \/ updates.last_shown_at = NULL
                    \/ t - updates.last_shown_at >= threshold
          [] OTHER -> TRUE

\* handleSubmit after API.getLatestRelease has answered
updateCheck(latest) ==
    /\ captured # EmptyObj
    /\ offered' =
          IF /\ latest.is_newer
             /\ \A i \in 1..Len(captured.ignored_versions) :
                   captured.ignored_versions[i] # latest.latest_version
             /\ allow(captured, now)
          THEN Append(offered, latest.latest_version)
          ELSE offered
    /\ captured' = EmptyObj
    /\ UNCHANGED <<otherVars, prefs, saved, saving, prompt, history, now>>

\* API.getLatestRelease throws: the catch block logs a warning
updateCheckFail ==
    /\ captured # EmptyObj
    /\ captured' = EmptyObj
    /\ UNCHANGED <<otherVars, prefs, saved, saving, prompt, offered, history, now>>

\* the notification is closed: onClose opens the prompt with its version
openWith ==
    /\ offered # <<>>
    /\ prompt' = [open |-> TRUE, version |-> Head(offered)]
    /\ offered' = Tail(offered)
    /\ UNCHANGED <<otherVars, prefs, saved, captured, saving, history, now>>

addIgnoredVersion(updates, version) ==
    IF version # "" /\ \A i \in 1..Len(updates.ignored_versions) :
                          updates.ignored_versions[i] # version
    THEN [updates EXCEPT !.ignored_versions = Append(@, version)]
    ELSE updates

\* onChoice up to its await: the store is changed and the save request sent
onChoice(choice) ==
    /\ prompt.open
    /\ saving = EmptyObj
    /\ prefs' =
          CASE choice = "later" -> [prefs EXCEPT !.last_shown_at = now]
            [] choice = "ignore_version" ->
                  [addIgnoredVersion(prefs, prompt.version) EXCEPT !.last_shown_at = now]
            [] choice = "never" -> [prefs EXCEPT !.policy = "never"]
    /\ saving' = [prefs |-> prefs', choice |-> choice, version |-> prompt.version]
    /\ UNCHANGED <<otherVars, saved, captured, prompt, offered, history, now>>

\* the save request succeeds: the backend holds the preferences sent
onChoiceOk ==
    /\ saving # EmptyObj
    /\ saved' = saving.prefs
    /\ saving' = EmptyObj
    /\ prompt' = [prompt EXCEPT !.open = FALSE]
    /\ history' = [history EXCEPT
                     !.declinedNever =
                        @ \/ (saving.choice = "never" /\ prefs.policy = "never"),
                     !.declinedVersions =
                        IF saving.choice = "ignore_version" /\ saving.version # ""
                        THEN @ \cup {saving.version} ELSE @]
    /\ UNCHANGED <<otherVars, prefs, captured, offered, now>>

\* the save request fails: the catch block swallows the error
onChoiceFail ==
    /\ saving # EmptyObj
    /\ saving' = EmptyObj
    /\ prompt' = [prompt EXCEPT !.open = FALSE]
    /\ UNCHANGED <<otherVars, prefs, saved, captured, offered, history, now>>

\* time passes between logins
Elapse(ms) ==
    /\ now + ms <= StartTime + MaxElapsedDays * 24 * 3600 * 1000
    /\ now' = now + ms
    /\ UNCHANGED <<otherVars, updateVars, history>>

----------------------------------------------------------------------------
(* State after construction *)

\* the stores and views after construction
InitStores ==
    /\ libraries = <<>>
    /\ libLoading = FALSE
    /\ libError = ""
    /\ selectedLibrary = NULL
    /\ scans = <<>>
    /\ scansLoading = FALSE
    /\ items = <<>>
    /\ total = 0
    /\ loading = FALSE
    /\ error = ""
    /\ selectedLibraryId = NULL
    /\ activeItem = EmptyObj
    /\ activeProgress = EmptyObj
    /\ activeItemLoading = FALSE
    /\ resumePrompt = EmptyObj
    /\ metadataRequestCache = <<>>
    /\ episodes = <<>>
    /\ video = EmptyObj
    /\ pending = [r \in Requests |-> 0]
    /\ rejected = FALSE
    /\ history = [newestFetch |-> NULL, newestOpen |-> NULL, beforeOpen |-> <<>>,
                  refresh |-> [id \in {1, 2, 3} |->
                                  [at |-> NULL, failed |-> FALSE, n |-> 0]],
                  removed |-> {}, declinedNever |-> FALSE, declinedVersions |-> {},
                  declinedAtSubmit |-> [never |-> FALSE, versions |-> {}]]
    /\ now = StartTime
    /\ nops = 0
    /\ last = "init"
    /\ prefs = defaultPrefs
    /\ saved = EmptyObj
    /\ captured = EmptyObj
    /\ saving = EmptyObj
    /\ prompt = [open |-> FALSE, version |-> ""]
    /\ offered = <<>>

Init ==
    /\ InitStores
    /\ scanEntry = NullScan

\* the normalizer before it is applied to a scan record
InitNormalize ==
    /\ InitStores
    /\ scanEntry \in ScanRecords

\* one more handler has run, within the budget max of the exploration
Ran(op, max) ==
    /\ nops < max
    /\ nops' = nops + 1
    /\ last' = op

----------------------------------------------------------------------------
(* Handlers of the library store *)

fetchLibraries ==
    /\ NPending < MaxPending
    /\ libLoading' = TRUE
    /\ libError' = ""
    /\ pending' = Issue([op |-> "fetchLibraries", arg |-> NULL])
    /\ rejected' = FALSE
    /\ UNCHANGED <<libraries, selectedLibrary, scanVars, modalVars, mediaVars, detailVars, history, now>>
    /\ UNCHANGED normalizerVars
    /\ UNCHANGED updateVars

fetchLibrariesOk(data) ==
    /\ pending[[op |-> "fetchLibraries", arg |-> NULL]] > 0
    /\ pending' = Settle([op |-> "fetchLibraries", arg |-> NULL])
    /\ libraries' = data
    /\ libLoading' = FALSE
    /\ rejected' = FALSE
    /\ UNCHANGED <<libError, selectedLibrary, scanVars, modalVars, mediaVars, detailVars, history, now>>
    /\ UNCHANGED normalizerVars
    /\ UNCHANGED updateVars

fetchLibrariesFail ==
    /\ pending[[op |-> "fetchLibraries", arg |-> NULL]] > 0
    /\ pending' = Settle([op |-> "fetchLibraries", arg |-> NULL])
    /\ libError' = "Failed to load libraries"
    /\ libLoading' = FALSE
    /\ rejected' = FALSE
    /\ UNCHANGED <<libraries, selectedLibrary, scanVars, modalVars, mediaVars, detailVars, history, now>>
    /\ UNCHANGED normalizerVars
    /\ UNCHANGED updateVars

\* variant: the embedded item is forwarded before the job id is looked at
applyScanUpdate_UpsertFirst(event) ==
    /\ IF event.media_item # NoItem
       THEN LET result == upsertItems(event.media_item, items, total,
                                      selectedLibraryId)
            IN  items' = result[1] /\ total' = result[2]
       ELSE UNCHANGED <<items, total>>
    /\ IF event.scan_id = ""
       THEN UNCHANGED scans
       ELSE scans' = ScansAfterEvent(event)
    /\ rejected' = FALSE
    /\ UNCHANGED <<scansLoading, loading, error, selectedLibraryId,
                   metadataRequestCache, pending, now>>
    /\ UNCHANGED <<libraryVars, modalVars, detailVars, history>>
    /\ UNCHANGED normalizerVars
    /\ UNCHANGED updateVars

\* variant: the embedded item is not forwarded to the media item cache
applyScanUpdate_NoForward(event) ==
    /\ IF event.scan_id = ""
       THEN UNCHANGED scans
       ELSE scans' = ScansAfterEvent(event)
    /\ UNCHANGED <<items, total>>
    /\ rejected' = FALSE
    /\ UNCHANGED <<scansLoading, loading, error, selectedLibraryId,
                   metadataRequestCache, pending, now>>
    /\ UNCHANGED <<libraryVars, modalVars, detailVars, history>>
    /\ UNCHANGED normalizerVars
    /\ UNCHANGED updateVars

applyScanUpdate(event) ==
    /\ IF event.scan_id = ""
       THEN UNCHANGED <<scans, items, total>>
       ELSE /\ scans' = ScansAfterEvent(event)
            /\ IF event.media_item # NoItem
               THEN LET result == upsertItems(event.media_item, items, total,
                                              selectedLibraryId)
                    IN  items' = result[1] /\ total' = result[2]
               ELSE UNCHANGED <<items, total>>
    /\ rejected' = FALSE
    /\ UNCHANGED <<scansLoading, loading, error, selectedLibraryId,
                   metadataRequestCache, pending, now>>
    /\ UNCHANGED <<libraryVars, modalVars, detailVars, history>>
    /\ UNCHANGED normalizerVars
    /\ UNCHANGED updateVars

fetchScans(libraryId) ==
    /\ NPending < MaxPending
    /\ scansLoading' = TRUE
    /\ pending' = Issue([op |-> "fetchScans", arg |-> libraryId])
    /\ rejected' = FALSE
    /\ UNCHANGED <<scans, mediaVars, now>>
    /\ UNCHANGED <<libraryVars, modalVars, detailVars, history>>
    /\ UNCHANGED normalizerVars
    /\ UNCHANGED updateVars

fetchScansOk(libraryId, payload) ==
    /\ pending[[op |-> "fetchScans", arg |-> libraryId]] > 0
    /\ pending' = Settle([op |-> "fetchScans", arg |-> libraryId])
    /\ scans' = Spread(scans,
                  [k \in {KeyOf(libraryId)} |->
                      [i \in 1..Len(payload) |-> normalizeScanEntry(payload[i])]])
    /\ scansLoading' = FALSE
    /\ rejected' = FALSE
    /\ UNCHANGED <<mediaVars, now>>
    /\ UNCHANGED <<libraryVars, modalVars, detailVars, history>>
    /\ UNCHANGED normalizerVars
    /\ UNCHANGED updateVars

fetchScansFail(libraryId) ==
    /\ pending[[op |-> "fetchScans", arg |-> libraryId]] > 0
    /\ pending' = Settle([op |-> "fetchScans", arg |-> libraryId])
    /\ scansLoading' = FALSE
    /\ rejected' = FALSE
    /\ UNCHANGED <<scans, mediaVars, now>>
    /\ UNCHANGED <<libraryVars, modalVars, detailVars, history>>
    /\ UNCHANGED normalizerVars
    /\ UNCHANGED updateVars

triggerScan(id) ==
    /\ NPending < MaxPending
    /\ pending' = Issue([op |-> "triggerScan", arg |-> id])
    /\ rejected' = FALSE
    /\ UNCHANGED <<scanVars, mediaVars, now>>
    /\ UNCHANGED <<libraryVars, modalVars, detailVars, history>>
    /\ UNCHANGED normalizerVars
    /\ UNCHANGED updateVars

\* variant: the job is inserted into the library's bucket only
triggerScanOk_LibraryBucketOnly(id, response) ==
    /\ pending[[op |-> "triggerScan", arg |-> id]] > 0
    /\ pending' = Settle([op |-> "triggerScan", arg |-> id])
    /\ LET normalized == normalizeScanEntry(response)
       IN  scans' = Spread(scans,
                      [k \in {KeyOf(id)} |-> <<normalized>> \o Bucket(k)])
    /\ rejected' = FALSE
    /\ UNCHANGED <<scansLoading, mediaVars, now>>
    /\ UNCHANGED <<libraryVars, modalVars, detailVars, history>>
    /\ UNCHANGED normalizerVars
    /\ UNCHANGED updateVars

triggerScanOk(id, response) ==
    /\ pending[[op |-> "triggerScan", arg |-> id]] > 0
    /\ pending' = Settle([op |-> "triggerScan", arg |-> id])
    /\ LET normalized == normalizeScanEntry(response)
       IN  scans' = Spread(scans,
                      [k \in {KeyOf(id), "all"} |-> <<normalized>> \o Bucket(k)])
    /\ rejected' = FALSE
    /\ UNCHANGED <<scansLoading, mediaVars, now>>
    /\ UNCHANGED <<libraryVars, modalVars, detailVars, history>>
    /\ UNCHANGED normalizerVars
    /\ UNCHANGED updateVars

triggerScanFail(id) ==
    /\ pending[[op |-> "triggerScan", arg |-> id]] > 0
    /\ pending' = Settle([op |-> "triggerScan", arg |-> id])
    /\ rejected' = TRUE
    /\ UNCHANGED <<scanVars, mediaVars, now>>
    /\ UNCHANGED <<libraryVars, modalVars, detailVars, history>>
    /\ UNCHANGED normalizerVars
    /\ UNCHANGED updateVars

setSelectedLibrary(id) ==
    /\ selectedLibrary' = id
    /\ rejected' = FALSE
    /\ UNCHANGED <<libraries, libLoading, libError, scanVars, mediaVars, detailVars,
                   modalVars, normalizerVars, pending, history, now>>
    /\ UNCHANGED updateVars

\* a mutation of the library store awaits the backend before it touches the
\* store: the call is issued here, and its Ok or Fail step follows
IssueMutation(op, arg) ==
    /\ NPending < MaxPending
    /\ pending' = Issue([op |-> op, arg |-> arg])
    /\ rejected' = FALSE
    /\ UNCHANGED <<libraryVars, scanVars, mediaVars, detailVars, modalVars,
                   normalizerVars, history, now>>
    /\ UNCHANGED updateVars

\* the awaited call throws: the store function rejects before its set()
FailMutation(op, arg) ==
    /\ pending[[op |-> op, arg |-> arg]] > 0
    /\ pending' = Settle([op |-> op, arg |-> arg])
    /\ rejected' = TRUE
    /\ UNCHANGED <<libraryVars, scanVars, mediaVars, detailVars, modalVars,
                   normalizerVars, history, now>>
    /\ UNCHANGED updateVars

createLibrary == IssueMutation("createLibrary", NULL)

createLibraryOk(response) ==
    /\ pending[[op |-> "createLibrary", arg |-> NULL]] > 0
    /\ pending' = Settle([op |-> "createLibrary", arg |-> NULL])
    /\ libraries' = Append(libraries, response)
    /\ rejected' = FALSE
    /\ UNCHANGED <<libLoading, libError, selectedLibrary, scanVars, mediaVars,
                   detailVars, modalVars, normalizerVars, history, now>>
    /\ UNCHANGED updateVars

createLibraryFail == FailMutation("createLibrary", NULL)

updateLibrary(id) == IssueMutation("updateLibrary", id)

updateLibraryOk(id, response) ==
    /\ pending[[op |-> "updateLibrary", arg |-> id]] > 0
    /\ pending' = Settle([op |-> "updateLibrary", arg |-> id])
    /\ LET index == FindIndex(libraries, id)
       IN  libraries' = IF index > 0
                        THEN [libraries EXCEPT ![index] = Spread(@, response)]
                        ELSE libraries
    /\ rejected' = FALSE
    /\ UNCHANGED <<libLoading, libError, selectedLibrary, scanVars, mediaVars,
                   detailVars, modalVars, normalizerVars, history, now>>
    /\ UNCHANGED updateVars

updateLibraryFail(id) == FailMutation("updateLibrary", id)

deleteLibrary(id) == IssueMutation("deleteLibrary", id)

deleteLibraryOk(id) ==
    /\ pending[[op |-> "deleteLibrary", arg |-> id]] > 0
    /\ pending' = Settle([op |-> "deleteLibrary", arg |-> id])
    /\ libraries' = SelectSeq(libraries, LAMBDA lib : lib["id"] # id)
    /\ selectedLibrary' = IF selectedLibrary = id THEN NULL ELSE selectedLibrary
    /\ scans' = MapDelete(scans, KeyOf(id))
    /\ rejected' = FALSE
    /\ UNCHANGED <<libLoading, libError, scansLoading, mediaVars, detailVars,
                   modalVars, normalizerVars, history, now>>
    /\ UNCHANGED updateVars

\* variant: the library is taken off the list although the request failed
deleteLibraryFail_Optimistic(id) ==
    /\ pending[[op |-> "deleteLibrary", arg |-> id]] > 0
    /\ pending' = Settle([op |-> "deleteLibrary", arg |-> id])
    /\ libraries' = SelectSeq(libraries, LAMBDA lib : lib["id"] # id)
    /\ rejected' = TRUE
    /\ UNCHANGED <<libLoading, libError, selectedLibrary, scanVars, mediaVars,
                   detailVars, modalVars, normalizerVars, history, now>>
    /\ UNCHANGED updateVars

deleteLibraryFail(id) == FailMutation("deleteLibrary", id)

----------------------------------------------------------------------------
(* Handlers of the library page (pages/Library.jsx): scan jobs *)

\* handleCancelScanJob and handleDeleteQueuedScan call the backend and show a
\* notification when the call returns or throws; they catch what it throws
SettleJobRequest(op) ==
    /\ pending[[op |-> op, arg |-> NULL]] > 0
    /\ pending' = Settle([op |-> op, arg |-> NULL])
    /\ rejected' = FALSE
    /\ UNCHANGED <<libraryVars, scanVars, mediaVars, detailVars, modalVars,
                   normalizerVars, history, now>>
    /\ UNCHANGED updateVars

handleCancelScanJob(jobId) == IssueMutation("cancelLibraryScan", NULL)
handleCancelScanJobOk(jobId) == SettleJobRequest("cancelLibraryScan")
handleCancelScanJobFail(jobId) == SettleJobRequest("cancelLibraryScan")

handleDeleteQueuedScan(jobId) == IssueMutation("deleteLibraryScan", NULL)
handleDeleteQueuedScanOk(jobId) == SettleJobRequest("deleteLibraryScan")
handleDeleteQueuedScanFail(jobId) == SettleJobRequest("deleteLibraryScan")

\* time passes between handlers
Tick ==
    /\ now < StartTime + MaxTime * TickMs
    /\ now' = now + TickMs
    /\ UNCHANGED <<libraryVars, modalVars, scanVars, mediaVars, detailVars, pending, rejected,
                   history, nops, last>>
    /\ UNCHANGED normalizerVars
    /\ UNCHANGED updateVars

----------------------------------------------------------------------------
(* Handlers of the media item store *)

setSelectedLibraryId(libraryId) ==
    /\ selectedLibraryId' = libraryId
    /\ rejected' = FALSE
    /\ UNCHANGED <<scanVars, items, total, loading, error, metadataRequestCache,
                   pending, now>>
    /\ UNCHANGED <<libraryVars, modalVars, detailVars, history>>
    /\ UNCHANGED normalizerVars
    /\ UNCHANGED updateVars

UpsertItems(itemsToUpsert) ==
    /\ LET result == upsertItems(itemsToUpsert, items, total, selectedLibraryId)
       IN  items' = result[1] /\ total' = result[2]
    /\ rejected' = FALSE
    /\ UNCHANGED <<scanVars, loading, error, selectedLibraryId, metadataRequestCache,
                   pending, now>>
    /\ UNCHANGED <<libraryVars, modalVars, detailVars, history>>
    /\ UNCHANGED normalizerVars
    /\ UNCHANGED updateVars

\* the argument of removeItems: one id (isArray false, the id in id) or an
\* array of ids (isArray true, the array in list)
RemoveInputs ==
    { [isArray |-> FALSE, id |-> id, list |-> <<>>] : id \in {1, 2, 7} }
      \cup { [isArray |-> TRUE, id |-> NULL, list |-> l] :
                l \in {<<>>, <<1>>, <<1, 2>>, <<2, 7>>, <<1, 1>>, <<7>>} }

\* new Set(Array.isArray(ids) ? ids : [ids])
idSet(ids) ==
    IF ids.isArray THEN { ids.list[i] : i \in 1..Len(ids.list) } ELSE { ids.id }

\* items.filter((item) => !idSet.has(item.id))
RECURSIVE Filter(_, _)
Filter(list, ids) ==
    IF list = <<>> THEN <<>>
    ELSE LET rest == Filter(SubSeq(list, 1, Len(list) - 1), ids)
             item == list[Len(list)]
         IN  IF item["id"] \in ids THEN rest ELSE Append(rest, item)

\* variant: total is left as it was
removeItems_KeepsTotal(ids) ==
    /\ items' = Filter(items, idSet(ids))
    /\ total' = total
    /\ rejected' = FALSE
    /\ history' = [history EXCEPT
                     !.removed = { id \in idSet(ids) :
                                     \E i \in 1..Len(items) : items[i]["id"] = id }]
    /\ UNCHANGED <<scanVars, loading, error, selectedLibraryId, metadataRequestCache,
                   pending, now>>
    /\ UNCHANGED <<libraryVars, modalVars, detailVars>>
    /\ UNCHANGED normalizerVars
    /\ UNCHANGED updateVars

removeItems(ids) ==
    /\ items' = Filter(items, idSet(ids))
    /\ total' = Len(items')
    /\ rejected' = FALSE
    /\ history' = [history EXCEPT
                     !.removed = { id \in idSet(ids) :
                                     \E i \in 1..Len(items) : items[i]["id"] = id }]
    /\ UNCHANGED <<scanVars, loading, error, selectedLibraryId, metadataRequestCache,
                   pending, now>>
    /\ UNCHANGED <<libraryVars, modalVars, detailVars>>
    /\ UNCHANGED normalizerVars
    /\ UNCHANGED updateVars

\* fetchItems without a library id: the cache is cleared, no request is made
fetchItemsNone ==
    /\ items' = <<>>
    /\ total' = 0
    /\ rejected' = FALSE
    /\ UNCHANGED <<scanVars, loading, error, selectedLibraryId, metadataRequestCache,
                   pending, now>>
    /\ UNCHANGED <<libraryVars, modalVars, detailVars, history>>
    /\ UNCHANGED normalizerVars
    /\ UNCHANGED updateVars

fetchItems(libraryId) ==
    /\ NPending < MaxPending
    /\ loading' = TRUE
    /\ error' = ""
    /\ pending' = Issue([op |-> "fetchItems", arg |-> libraryId])
    /\ rejected' = FALSE
    /\ history' = [history EXCEPT !.newestFetch = libraryId]
    /\ UNCHANGED <<scanVars, items, total, selectedLibraryId, metadataRequestCache, now>>
    /\ UNCHANGED <<libraryVars, modalVars, detailVars>>
    /\ UNCHANGED normalizerVars
    /\ UNCHANGED updateVars

\* response.count || results.length || 0
ResponseTotal(response) ==
    IF response.count # NULL /\ response.count # 0 THEN response.count
    ELSE Len(response.results)

fetchItemsOk(libraryId, response) ==
    /\ pending[[op |-> "fetchItems", arg |-> libraryId]] > 0
    /\ items' = response.results
    /\ total' = ResponseTotal(response)
    /\ loading' = FALSE
    /\ LET settled == Settle([op |-> "fetchItems", arg |-> libraryId])
           q == queueMetadataRefresh(response.results, FALSE, now,
                   [cache |-> metadataRequestCache, pending |-> settled])
       IN  /\ metadataRequestCache' = q.cache
           /\ pending' = q.pending
           /\ history' = [history EXCEPT
                            !.refresh = Logged(@, settled, q.pending, now)]
    /\ rejected' = FALSE
    /\ UNCHANGED <<scanVars, error, selectedLibraryId, now>>
    /\ UNCHANGED <<libraryVars, modalVars, detailVars>>
    /\ UNCHANGED normalizerVars
    /\ UNCHANGED updateVars

\* variant: the failure handler resets the collection
fetchItemsFail_ClearsItems(libraryId) ==
    /\ pending[[op |-> "fetchItems", arg |-> libraryId]] > 0
    /\ pending' = Settle([op |-> "fetchItems", arg |-> libraryId])
    /\ items' = <<>>
    /\ total' = 0
    /\ error' = "Failed to load media items"
    /\ loading' = FALSE
    /\ rejected' = FALSE
    /\ UNCHANGED <<scanVars, selectedLibraryId, metadataRequestCache, now>>
    /\ UNCHANGED <<libraryVars, modalVars, detailVars, history>>
    /\ UNCHANGED normalizerVars
    /\ UNCHANGED updateVars

fetchItemsFail(libraryId) ==
    /\ pending[[op |-> "fetchItems", arg |-> libraryId]] > 0
    /\ pending' = Settle([op |-> "fetchItems", arg |-> libraryId])
    /\ error' = "Failed to load media items"
    /\ loading' = FALSE
    /\ rejected' = FALSE
    /\ UNCHANGED <<scanVars, items, total, selectedLibraryId, metadataRequestCache, now>>
    /\ UNCHANGED <<libraryVars, modalVars, detailVars, history>>
    /\ UNCHANGED normalizerVars
    /\ UNCHANGED updateVars

\* the detail slots and the list state
Shown == <<activeItem, activeProgress, resumePrompt, items, total, loading, error>>

openItem(id) ==
    /\ NPending < MaxPending
    /\ activeItemLoading' = TRUE
    /\ resumePrompt' = EmptyObj
    /\ activeProgress' = EmptyObj
    /\ pending' = Issue([op |-> "openItem", arg |-> id])
    /\ rejected' = FALSE
    /\ history' = [history EXCEPT !.newestOpen = id, !.beforeOpen = Shown]
    /\ UNCHANGED <<libraryVars, modalVars, scanVars, mediaVars, activeItem, now>>
    /\ UNCHANGED normalizerVars
    /\ UNCHANGED updateVars

\* response.watch_progress || null
ProgressOf(response) ==
    IF Has(response, "watch_progress") THEN response["watch_progress"] ELSE EmptyObj

\* variant: the fetched item is not forwarded to upsertItems
openItemOk_NoUpsert(id, response) ==
    /\ pending[[op |-> "openItem", arg |-> id]] > 0
    /\ activeItem' = response
    /\ activeItemLoading' = FALSE
    /\ activeProgress' = ProgressOf(response)
    /\ LET settled == Settle([op |-> "openItem", arg |-> id])
           q == queueMetadataRefresh(<<response>>, TRUE, now,
                   [cache |-> metadataRequestCache, pending |-> settled])
       IN  /\ metadataRequestCache' = q.cache
           /\ pending' = q.pending
           /\ history' = [history EXCEPT
                            !.refresh = Logged(@, settled, q.pending, now)]
    /\ rejected' = FALSE
    /\ UNCHANGED <<libraryVars, modalVars, scanVars, items, total, loading, error,
                   selectedLibraryId, resumePrompt, now>>
    /\ UNCHANGED normalizerVars
    /\ UNCHANGED updateVars

openItemOk(id, response) ==
    /\ pending[[op |-> "openItem", arg |-> id]] > 0
    /\ activeItem' = response
    /\ activeItemLoading' = FALSE
    /\ activeProgress' = ProgressOf(response)
    /\ LET result == upsertItems(<<response>>, items, total, selectedLibraryId)
       IN  items' = result[1] /\ total' = result[2]
    /\ LET settled == Settle([op |-> "openItem", arg |-> id])
           q == queueMetadataRefresh(<<response>>, TRUE, now,
                   [cache |-> metadataRequestCache, pending |-> settled])
       IN  /\ metadataRequestCache' = q.cache
           /\ pending' = q.pending
           /\ history' = [history EXCEPT
                            !.refresh = Logged(@, settled, q.pending, now)]
    /\ rejected' = FALSE
    /\ UNCHANGED <<libraryVars, modalVars, scanVars, loading, error, selectedLibraryId,
                   resumePrompt, now>>
    /\ UNCHANGED normalizerVars
    /\ UNCHANGED updateVars

\* the catch block rethrows
openItemFail(id) ==
    /\ pending[[op |-> "openItem", arg |-> id]] > 0
    /\ pending' = Settle([op |-> "openItem", arg |-> id])
    /\ activeItemLoading' = FALSE
    /\ rejected' = TRUE
    /\ UNCHANGED <<libraryVars, modalVars, scanVars, mediaVars, activeItem, activeProgress,
                   resumePrompt, history, now>>
    /\ UNCHANGED normalizerVars
    /\ UNCHANGED updateVars

closeItem ==
    /\ activeItem' = EmptyObj
    /\ resumePrompt' = EmptyObj
    /\ activeProgress' = EmptyObj
    /\ rejected' = FALSE
    /\ history' = [history EXCEPT !.newestOpen = NULL]
    /\ UNCHANGED <<libraryVars, modalVars, scanVars, mediaVars, activeItemLoading, pending, now>>
    /\ UNCHANGED normalizerVars
    /\ UNCHANGED updateVars

setActiveProgress(progress) ==
    /\ activeItem' = IF activeItem # EmptyObj
                     THEN Spread(activeItem, [watch_progress |-> progress])
                     ELSE activeItem
    /\ items' = [i \in 1..Len(items) |->
                    IF activeItem # EmptyObj /\ items[i]["id"] = activeItem["id"]
                    THEN Spread(items[i], [watch_progress |-> progress])
                    ELSE items[i]]
    /\ activeProgress' = progress
    /\ rejected' = FALSE
    /\ UNCHANGED <<libraryVars, modalVars, scanVars, total, loading, error, selectedLibraryId,
                   metadataRequestCache, activeItemLoading, resumePrompt, pending,
                   history, now>>
    /\ UNCHANGED normalizerVars
    /\ UNCHANGED updateVars

\* requestResume with a progress id (without one it returns at once)
requestResume(progressId) ==
    /\ NPending < MaxPending
    /\ pending' = Issue([op |-> "requestResume", arg |-> progressId])
    /\ rejected' = FALSE
    /\ UNCHANGED <<libraryVars, modalVars, scanVars, mediaVars, detailVars, history, now>>
    /\ UNCHANGED normalizerVars
    /\ UNCHANGED updateVars

requestResumeOk(progressId, response) ==
    /\ pending[[op |-> "requestResume", arg |-> progressId]] > 0
    /\ pending' = Settle([op |-> "requestResume", arg |-> progressId])
    /\ resumePrompt' = response
    /\ rejected' = FALSE
    /\ UNCHANGED <<libraryVars, modalVars, scanVars, mediaVars, activeItem, activeProgress,
                   activeItemLoading, history, now>>
    /\ UNCHANGED normalizerVars
    /\ UNCHANGED updateVars

\* the catch block returns null
requestResumeFail(progressId) ==
    /\ pending[[op |-> "requestResume", arg |-> progressId]] > 0
    /\ pending' = Settle([op |-> "requestResume", arg |-> progressId])
    /\ rejected' = FALSE
    /\ UNCHANGED <<libraryVars, modalVars, scanVars, mediaVars, detailVars, history, now>>
    /\ UNCHANGED normalizerVars
    /\ UNCHANGED updateVars

clearResumePrompt ==
    /\ resumePrompt' = EmptyObj
    /\ rejected' = FALSE
    /\ UNCHANGED <<libraryVars, modalVars, scanVars, mediaVars, activeItem, activeProgress,
                   activeItemLoading, pending, history, now>>
    /\ UNCHANGED normalizerVars
    /\ UNCHANGED updateVars

\* API.refreshMediaItemMetadata(id) settles: nothing to do when it succeeds,
\* the catch handler drops the cooldown entry when it fails
refreshMetadataOk(id) ==
    /\ pending[[op |-> "refreshMediaItemMetadata", arg |-> id]] > 0
    /\ pending' = Settle([op |-> "refreshMediaItemMetadata", arg |-> id])
    /\ rejected' = FALSE
    /\ UNCHANGED <<scanVars, mediaVars, now>>
    /\ UNCHANGED <<libraryVars, modalVars, detailVars, history>>
    /\ UNCHANGED normalizerVars
    /\ UNCHANGED updateVars

\* variant: the failure handler leaves the cooldown entry in place
refreshMetadataFail_KeepsEntry(id) ==
    /\ pending[[op |-> "refreshMediaItemMetadata", arg |-> id]] > 0
    /\ pending' = Settle([op |-> "refreshMediaItemMetadata", arg |-> id])
    /\ history' = [history EXCEPT !.refresh[id].failed = TRUE]
    /\ rejected' = FALSE
    /\ UNCHANGED <<scanVars, mediaVars, now>>
    /\ UNCHANGED <<libraryVars, modalVars, detailVars>>
    /\ UNCHANGED normalizerVars
    /\ UNCHANGED updateVars

refreshMetadataFail(id) ==
    /\ pending[[op |-> "refreshMediaItemMetadata", arg |-> id]] > 0
    /\ pending' = Settle([op |-> "refreshMediaItemMetadata", arg |-> id])
    /\ metadataRequestCache' = MapDelete(metadataRequestCache, id)
    /\ history' = [history EXCEPT !.refresh[id].failed = TRUE]
    /\ rejected' = FALSE
    /\ UNCHANGED <<scanVars, items, total, loading, error, selectedLibraryId, now>>
    /\ UNCHANGED <<libraryVars, modalVars, detailVars>>
    /\ UNCHANGED normalizerVars
    /\ UNCHANGED updateVars

----------------------------------------------------------------------------
(* The detail modal (components/library/LibraryFormModal.jsx): resume offer *)

\* !x of a number or null: null, undefined and 0 are falsy
Falsy(n) == n = NULL \/ n = 0

\* progress records the store can hold: position and duration in
\* milliseconds, each possibly null: every position of the longest duration,
\* and the ends of the shorter and the unknown ones
Durations == {NULL, 0, MaxDurationMs \div 4}
Positions == {NULL} \cup (0..MaxDurationMs)
ProgressRecords ==
    { [id |-> 9, position_ms |-> p, duration_ms |-> MaxDurationMs] : p \in Positions }
      \cup { [id |-> 9, position_ms |-> p, duration_ms |-> d] :
                 p \in {NULL, 0, 1, MaxDurationMs \div 4}, d \in Durations }

canResume_NoGuardBand(progress) ==
    IF \/ progress = EmptyObj
       \/ Falsy(progress.position_ms)
       \/ Falsy(progress.duration_ms)
    THEN FALSE
    ELSE progress.duration_ms - progress.position_ms > 0

\* remaining > duration_ms * 0.04.  Both sides are multiplied by 25: for
\* whole milliseconds the double product duration_ms * 0.04 compares with
\* the whole number remaining as the exact product does, since it is either
\* a whole number itself or at least 1/25 away from one.
canResume(progress) ==
    IF \/ progress = EmptyObj
       \/ Falsy(progress.position_ms)
       \/ Falsy(progress.duration_ms)
    THEN FALSE
    ELSE LET remaining == progress.duration_ms - progress.position_ms
         IN  remaining * 25 > progress.duration_ms

\* the effect on [canResume, activeProgressId, resumePrompt]: ask the backend
\* for the resume position once resume is on offer
resumeEffect ==
    /\ canResume(activeProgress)
    /\ ~Falsy(activeProgress.id)
    /\ resumePrompt = EmptyObj
    /\ requestResume(activeProgress.id)

----------------------------------------------------------------------------
(* The detail modal: episode order, playback plan and playback handoff *)

\* episodes the backend lists for a show.  Episodes 11, 12 and 14 share
\* season and episode number, 11 and 14 also the sort title; episode 13 has
\* no numbers, no titles and no watch summary.  A list may hold an episode
\* more than once.
Episodes ==
    { [id |-> 11, season_number |-> 1, episode_number |-> 1, title |-> "b",
       sort_title |-> "a", watch_summary |-> [status |-> "watched"]],
      [id |-> 12, season_number |-> 1, episode_number |-> 1, title |-> "a",
       sort_title |-> "b", watch_summary |-> [status |-> "in_progress"]],
      [id |-> 13, season_number |-> NULL, episode_number |-> NULL, title |-> "",
       sort_title |-> "", watch_summary |-> EmptyObj],
      [id |-> 14, season_number |-> 1, episode_number |-> 1, title |-> "c",
       sort_title |-> "a", watch_summary |-> [status |-> "watched"]],
      [id |-> 15, season_number |-> 2, episode_number |-> 1, title |-> "c",
       sort_title |-> "c", watch_summary |-> [status |-> "not_started"]] }

EpisodeLists == ListsUpTo(Episodes, MaxEpisodes)

\* the items the detail endpoint returns for id 3: a show with or without a
\* watch summary, whose resume and next episode ids may be those of listed
\* episodes or not; and a movie
WatchSummaries ==
    { [status |-> "in_progress", resume_episode_id |-> r, next_episode_id |-> n] :
         r \in {15, 99}, n \in {13, 99} }

PlayableItems ==
    LET full == [id |-> 3, library |-> OwnerOf(3), title |-> "a",
                 poster_url |-> "p", metadata_last_synced_at |-> 0]
    IN  { Spread(full, [item_type |-> "show", watch_summary |-> w]) :
             w \in WatchSummaries \cup {EmptyObj} }
          \cup { Spread(full, [item_type |-> "movie"]) }

\* the comparator of orderedEpisodes
CompareEpisodes(a, b) ==
    LET seasonA == Coalesce(a.season_number, 0)
        seasonB == Coalesce(b.season_number, 0)
        episodeA == Coalesce(a.episode_number, 0)
        episodeB == Coalesce(b.episode_number, 0)
    IN  IF seasonA # seasonB THEN seasonA - seasonB
        ELSE IF episodeA # episodeB THEN episodeA - episodeB
        ELSE localeCompare(OrElse(a.sort_title, ""), OrElse(b.sort_title, ""))

\* Array.prototype.sort is stable: x goes behind every episode not greater than it
RECURSIVE InsertEpisode(_, _)
InsertEpisode(sorted, x) ==
    IF sorted = <<>> THEN <<x>>
    ELSE IF CompareEpisodes(sorted[Len(sorted)], x) <= 0 THEN Append(sorted, x)
    ELSE Append(InsertEpisode(SubSeq(sorted, 1, Len(sorted) - 1), x),
                sorted[Len(sorted)])

RECURSIVE orderedEpisodes(_)
orderedEpisodes(list) ==
    IF list = <<>> THEN <<>>
    ELSE InsertEpisode(orderedEpisodes(SubSeq(list, 1, Len(list) - 1)), list[Len(list)])

\* activeItem?.watch_summary || null
showWatchSummary(item) ==
    IF item # EmptyObj /\ Has(item, "watch_summary") THEN item["watch_summary"]
    ELSE EmptyObj

\* ep.watch_summary?.status
StatusOf(ep) ==
    IF ep.watch_summary = EmptyObj THEN "" ELSE ep.watch_summary.status

\* sorted.find(test) || null, the candidates given as the indexes that pass the test
FirstAt(sorted, hits) ==
    IF hits = {} THEN EmptyObj
    ELSE sorted[CHOOSE i \in hits : \A j \in hits : i <= j]

resumeEpisode_NoInProgress(sorted, summary) ==
    LET resumeId == IF summary = EmptyObj THEN NULL ELSE summary.resume_episode_id
        byId == FirstAt(sorted, {i \in 1..Len(sorted) : sorted[i].id = resumeId})
        unwatched == FirstAt(sorted, {i \in 1..Len(sorted) :
                                         StatusOf(sorted[i]) # "watched"})
    IN  IF byId # EmptyObj THEN byId
        ELSE IF unwatched # EmptyObj THEN unwatched
        ELSE sorted[1]

\* the resumeEpisode of playbackPlan, for a list that is not empty
resumeEpisode(sorted, summary) ==
    LET resumeId == IF summary = EmptyObj THEN NULL ELSE summary.resume_episode_id
        byId == FirstAt(sorted, {i \in 1..Len(sorted) : sorted[i].id = resumeId})
        inProgress == FirstAt(sorted, {i \in 1..Len(sorted) :
                                          StatusOf(sorted[i]) = "in_progress"})
        unwatched == FirstAt(sorted, {i \in 1..Len(sorted) :
                                         StatusOf(sorted[i]) # "watched"})
    IN  IF byId # EmptyObj THEN byId
        ELSE IF inProgress # EmptyObj THEN inProgress
        ELSE IF unwatched # EmptyObj THEN unwatched
        ELSE sorted[1]

nextEpisode_OnlyDeclared(sorted, summary, resume) ==
    LET nextId == IF summary = EmptyObj THEN NULL ELSE summary.next_episode_id
    IN  FirstAt(sorted, {i \in 1..Len(sorted) : sorted[i].id = nextId})

\* the nextEpisode of playbackPlan, for a list that is not empty; FindIndex
\* counts from 1 and gives 0 where findIndex gives -1
nextEpisode(sorted, summary, resume) ==
    LET nextId == IF summary = EmptyObj THEN NULL ELSE summary.next_episode_id
        byId == FirstAt(sorted, {i \in 1..Len(sorted) : sorted[i].id = nextId})
        currentIndex == FindIndex(sorted, resume.id) - 1
    IN  IF byId # EmptyObj THEN byId
        ELSE IF resume # EmptyObj /\ currentIndex >= 0 /\ currentIndex + 1 < Len(sorted)
             THEN sorted[currentIndex + 2]
        ELSE EmptyObj

\* the plan of the show on display: null (the empty object) for anything else
playbackPlan(item, list) ==
    IF item = EmptyObj \/ GetS(item, "item_type") # "show" THEN EmptyObj
    ELSE LET sorted == orderedEpisodes(list)
         IN  IF sorted = <<>>
             THEN [sorted |-> <<>>, resumeEpisode |-> EmptyObj, nextEpisode |-> EmptyObj]
             ELSE LET resume == resumeEpisode(sorted, showWatchSummary(item))
                  IN  [sorted |-> sorted,
                       resumeEpisode |-> resume,
                       nextEpisode |-> nextEpisode(sorted, showWatchSummary(item), resume)]

\* resolvedSequence.map((ep) => ep.id)
IdsOf(list) == [i \in 1..Len(list) |-> list[i].id]

playbackSequence_FromStart(episode, sequence, startIndex, ordered) ==
    LET episodeIds == IF sequence # <<>> THEN IdsOf(sequence) ELSE IdsOf(ordered)
    IN  IF episodeIds # <<>>
        THEN [episodeIds |-> episodeIds, currentIndex |-> 0]
        ELSE EmptyObj

\* the playbackSequence of handlePlayEpisode; currentIndex counts from 0 as
\* in the code, startIndex is NULL when the caller passes none
playbackSequence(episode, sequence, startIndex, ordered) ==
    LET episodeIds == IF sequence # <<>> THEN IdsOf(sequence) ELSE IdsOf(ordered)
        found == { i \in 1..Len(episodeIds) : episodeIds[i] = episode.id }
        computedIndex ==
            IF startIndex # NULL THEN startIndex
            ELSE IF found = {} THEN -1
            ELSE (CHOOSE i \in found : \A j \in found : i <= j) - 1
    IN  IF episodeIds # <<>>
        THEN [episodeIds |-> episodeIds,
              currentIndex |-> IF computedIndex >= 0 THEN computedIndex ELSE 0]
        ELSE EmptyObj

\* the effect on [opened, activeItem?.id, activeItem?.item_type] while the
\* modal is open: a show has its episodes requested, anything else has none
loadEpisodes ==
    /\ IF activeItem # EmptyObj /\ GetS(activeItem, "item_type") = "show"
       THEN /\ NPending < MaxPending
            /\ pending' = Issue([op |-> "getMediaItemEpisodes", arg |-> activeItem["id"]])
            /\ UNCHANGED episodes
       ELSE /\ episodes' = <<>>
            /\ UNCHANGED pending
    /\ rejected' = FALSE
    /\ UNCHANGED <<libraryVars, scanVars, mediaVars, detailVars, video, history, now>>
    /\ UNCHANGED normalizerVars
    /\ UNCHANGED updateVars

loadEpisodesOk(results) ==
    /\ pending[[op |-> "getMediaItemEpisodes", arg |-> 3]] > 0
    /\ pending' = Settle([op |-> "getMediaItemEpisodes", arg |-> 3])
    /\ episodes' = results
    /\ rejected' = FALSE
    /\ UNCHANGED <<libraryVars, scanVars, mediaVars, detailVars, video, history, now>>
    /\ UNCHANGED normalizerVars
    /\ UNCHANGED updateVars

loadEpisodesFail ==
    /\ pending[[op |-> "getMediaItemEpisodes", arg |-> 3]] > 0
    /\ pending' = Settle([op |-> "getMediaItemEpisodes", arg |-> 3])
    /\ episodes' = <<>>
    /\ rejected' = FALSE
    /\ UNCHANGED <<libraryVars, scanVars, mediaVars, detailVars, video, history, now>>
    /\ UNCHANGED normalizerVars
    /\ UNCHANGED updateVars

\* handlePlayEpisode works on the episode list of the render it was called
\* in, so its awaits leave nothing for other handlers to change under it.
\* playable: the episode has a file and the stream endpoint gives a URL;
\* otherwise a notification is shown and nothing is played.
handlePlayEpisode(episode, sequence, startIndex, playable) ==
    /\ IF playable
       THEN video' = [mediaItemId |-> episode.id,
                      playbackSequence |->
                         playbackSequence(episode, sequence, startIndex,
                                          orderedEpisodes(episodes))]
       ELSE UNCHANGED video
    /\ rejected' = FALSE
    /\ UNCHANGED <<libraryVars, scanVars, mediaVars, detailVars, episodes, pending,
                   history, now>>
    /\ UNCHANGED normalizerVars
    /\ UNCHANGED updateVars

\* handlePrimaryAction on a show (for any other item it starts the item
\* itself, which has no episode sequence): play the resume episode, else the
\* next one, else the first one; without episodes only a notification is shown
handlePrimaryAction(playable) ==
    /\ activeItem # EmptyObj
    /\ GetS(activeItem, "item_type") = "show"
    /\ LET plan == playbackPlan(activeItem, episodes)
           targetEpisode ==
               IF plan.resumeEpisode # EmptyObj THEN plan.resumeEpisode
               ELSE IF plan.nextEpisode # EmptyObj THEN plan.nextEpisode
               ELSE IF plan.sorted # <<>> THEN plan.sorted[1]
               ELSE EmptyObj
       IN  IF targetEpisode = EmptyObj
           THEN /\ rejected' = FALSE
                /\ UNCHANGED <<libraryVars, scanVars, mediaVars, detailVars, modalVars,
                               pending, history, now>>
           ELSE handlePlayEpisode(targetEpisode, plan.sorted,
                                  FindIndex(plan.sorted, targetEpisode.id) - 1, playable)
    /\ UNCHANGED normalizerVars
    /\ UNCHANGED updateVars

\* the Play button of the row of the i-th ordered episode:
\* handlePlayEpisode(episode, { sequence: playbackPlan?.sorted }), where a
\* missing sequence defaults to orderedEpisodes
playEpisodeRow(i, playable) ==
    /\ i \in 1..Len(episodes)
    /\ LET plan == playbackPlan(activeItem, episodes)
           sequence == IF plan = EmptyObj THEN orderedEpisodes(episodes) ELSE plan.sorted
       IN  handlePlayEpisode(orderedEpisodes(episodes)[i], sequence, NULL, playable)

----------------------------------------------------------------------------
(* Specifications *)

\* the scan registry under push events, snapshots and scan triggers
NextScan ==
    \/ \E event \in ScanEvents \cup MalformedEvents :
          Ran("applyScanUpdate", MaxScanOps) /\ applyScanUpdate(event)
    \/ \E libraryId \in {NULL, 5} :
          Ran("fetchScans", MaxScanOps) /\ fetchScans(libraryId)
    \/ \E libraryId \in {NULL, 5}, payload \in ScanPages :
          Ran("fetchScansOk", MaxScanOps) /\ fetchScansOk(libraryId, payload)
    \/ \E libraryId \in {NULL, 5} :
          Ran("fetchScansFail", MaxScanOps) /\ fetchScansFail(libraryId)
    \/ Ran("fetchLibraries", MaxScanOps) /\ fetchLibraries
    \/ \E data \in LibraryPages :
          Ran("fetchLibrariesOk", MaxScanOps) /\ fetchLibrariesOk(data)
    \/ Ran("fetchLibrariesFail", MaxScanOps) /\ fetchLibrariesFail
    \/ Ran("triggerScan", MaxScanOps) /\ triggerScan(5)
    \/ \E response \in BackendJobs :
          Ran("triggerScanOk", MaxScanOps) /\ triggerScanOk(5, response)
    \/ Ran("triggerScanFail", MaxScanOps) /\ triggerScanFail(5)
    \/ Tick

SpecScan == Init /\ [][NextScan]_vars

\* the media item cache under selection, list fetches, upserts and item events
NextMedia ==
    \/ \E libraryId \in LibraryIds \cup {NULL} :
          Ran("setSelectedLibraryId", MaxMediaOps) /\ setSelectedLibraryId(libraryId)
    \/ \E itemsToUpsert \in UpsertLists :
          Ran("upsertItems", MaxMediaOps) /\ UpsertItems(itemsToUpsert)
    \/ Ran("fetchItems", MaxMediaOps) /\ fetchItemsNone
    \/ \E libraryId \in LibraryIds :
          Ran("fetchItems", MaxMediaOps) /\ fetchItems(libraryId)
    \/ \E libraryId \in LibraryIds :
          \E response \in ItemResponses(libraryId) :
             Ran("fetchItemsOk", MaxMediaOps) /\ fetchItemsOk(libraryId, response)
    \/ \E libraryId \in LibraryIds :
          Ran("fetchItemsFail", MaxMediaOps) /\ fetchItemsFail(libraryId)
    \/ \E event \in ItemEvents \cup MalformedItemEvents :
          Ran("applyScanUpdate", MaxMediaOps) /\ applyScanUpdate(event)

SpecMedia == Init /\ [][NextMedia]_vars

\* a triggered scan: its response, its first events and the snapshots around it
NextTrigger ==
    \/ \E event \in TriggerEvents :
          Ran("applyScanUpdate", MaxTriggerOps) /\ applyScanUpdate(event)
    \/ Ran("fetchScans", MaxTriggerOps) /\ fetchScans(5)
    \/ \E payload \in ScanPages :
          Ran("fetchScansOk", MaxTriggerOps) /\ fetchScansOk(5, payload)
    \/ Ran("fetchScansFail", MaxTriggerOps) /\ fetchScansFail(5)
    \/ Ran("triggerScan", MaxTriggerOps) /\ triggerScan(5)
    \/ \E response \in BackendJobs :
          Ran("triggerScanOk", MaxTriggerOps) /\ triggerScanOk(5, response)
    \/ Ran("triggerScanFail", MaxTriggerOps) /\ triggerScanFail(5)
    \/ Tick

SpecTrigger == Init /\ [][NextTrigger]_vars

\* background metadata refresh: item 1 stays without its metadata, items 2
\* and 3 have theirs
NextRefresh ==
    \/ Ran("setSelectedLibraryId", MaxRefreshOps) /\ setSelectedLibraryId(5)
    \/ \E x \in UnsyncedItems :
          Ran("upsertItems", MaxRefreshOps) /\ UpsertItems(<<x>>)
    \/ Ran("fetchItems", MaxRefreshOps) /\ fetchItems(5)
    \/ \E response \in UnsyncedResponses :
          Ran("fetchItemsOk", MaxRefreshOps) /\ fetchItemsOk(5, response)
    \/ \E id \in {1, 3} :
          Ran("openItem", MaxRefreshOps) /\ openItem(id)
    \/ \E id \in {1, 3} :
          \E response \in { r \in DetailItems(id) : shouldRefreshMetadata(r) <=> id = 1 } :
             Ran("openItemOk", MaxRefreshOps) /\ openItemOk(id, response)
    \/ \E id \in {1, 2, 3} :
          Ran("refreshMetadataOk", MaxRefreshOps) /\ refreshMetadataOk(id)
    \/ \E id \in {1, 2, 3} :
          Ran("refreshMetadataFail", MaxRefreshOps) /\ refreshMetadataFail(id)
    \/ Tick

SpecRefresh == Init /\ [][NextRefresh]_vars

\* the detail view over the media item cache
NextDetail ==
    \/ Ran("setSelectedLibraryId", MaxDetailOps) /\ setSelectedLibraryId(5)
    \/ \E x \in IncomingItems :
          Ran("upsertItems", MaxDetailOps) /\ UpsertItems(<<x>>)
    \/ \E id \in {1, 3} :
          Ran("openItem", MaxDetailOps) /\ openItem(id)
    \/ \E id \in {1, 3} :
          \E response \in DetailItems(id) :
             Ran("openItemOk", MaxDetailOps) /\ openItemOk(id, response)
    \/ \E id \in {1, 3} :
          Ran("openItemFail", MaxDetailOps) /\ openItemFail(id)
    \/ Ran("closeItem", MaxDetailOps) /\ closeItem
    \/ \E progress \in {EmptyObj, WatchProgress} :
          Ran("setActiveProgress", MaxDetailOps) /\ setActiveProgress(progress)
    \/ Ran("requestResume", MaxDetailOps) /\ requestResume(9)
    \/ Ran("requestResumeOk", MaxDetailOps) /\ requestResumeOk(9, ResumeInfo)
    \/ Ran("requestResumeFail", MaxDetailOps) /\ requestResumeFail(9)
    \/ Ran("clearResumePrompt", MaxDetailOps) /\ clearResumePrompt

SpecDetail == Init /\ [][NextDetail]_vars

\* the resume offer of the detail modal over the progress records
NextResume ==
    \/ \E progress \in ProgressRecords \cup {EmptyObj} :
          Ran("setActiveProgress", MaxResumeOps) /\ setActiveProgress(progress)
    \/ Ran("requestResume", MaxResumeOps) /\ resumeEffect
    \/ Ran("requestResumeOk", MaxResumeOps) /\ requestResumeOk(9, ResumeInfo)
    \/ Ran("requestResumeFail", MaxResumeOps) /\ requestResumeFail(9)
    \/ Ran("clearResumePrompt", MaxResumeOps) /\ clearResumePrompt

SpecResume == Init /\ [][NextResume]_vars

\* the detail modal of a show: its episodes, its plan and what it plays
NextPlayback ==
    \/ Ran("openItem", MaxPlaybackOps) /\ openItem(3)
    \/ \E response \in PlayableItems :
          Ran("openItemOk", MaxPlaybackOps) /\ openItemOk(3, response)
    \/ Ran("loadEpisodes", MaxPlaybackOps) /\ loadEpisodes
    \/ \E results \in EpisodeLists :
          Ran("loadEpisodesOk", MaxPlaybackOps) /\ loadEpisodesOk(results)
    \/ Ran("loadEpisodesFail", MaxPlaybackOps) /\ loadEpisodesFail
    \/ \E playable \in BOOLEAN :
          Ran("handlePrimaryAction", MaxPlaybackOps) /\ handlePrimaryAction(playable)
    \/ \E i \in 1..MaxEpisodes, playable \in BOOLEAN :
          Ran("handlePlayEpisode", MaxPlaybackOps) /\ playEpisodeRow(i, playable)

SpecPlayback == Init /\ [][NextPlayback]_vars

\* removal from the media item cache after fetches and upserts
NextRemove ==
    \/ \E x \in IncomingItems :
          Ran("upsertItems", MaxRemoveOps) /\ UpsertItems(<<x>>)
    \/ Ran("fetchItems", MaxRemoveOps) /\ fetchItems(5)
    \/ \E response \in ItemResponses(5) :
          Ran("fetchItemsOk", MaxRemoveOps) /\ fetchItemsOk(5, response)
    \/ \E ids \in RemoveInputs :
          Ran("removeItems", MaxRemoveOps) /\ removeItems(ids)

SpecRemove == Init /\ [][NextRemove]_vars

\* the normalizer applied to a record and to its own result
NextNormalize ==
    Ran("normalizeScanEntry", MaxNormalizeOps) /\ Normalize

SpecNormalize == InitNormalize /\ [][NextNormalize]_vars

\* the scan registry fed with counts under both names
NextAlias ==
    \/ \E event \in AliasEvents :
          Ran("applyScanUpdate", MaxAliasOps) /\ applyScanUpdate(event)
    \/ Ran("fetchScans", MaxAliasOps) /\ fetchScans(5)
    \/ \E job \in AliasJobs :
          Ran("fetchScansOk", MaxAliasOps) /\ fetchScansOk(5, <<job>>)
    \/ Ran("triggerScan", MaxAliasOps) /\ triggerScan(5)
    \/ \E response \in AliasJobs :
          Ran("triggerScanOk", MaxAliasOps) /\ triggerScanOk(5, response)

SpecAlias == Init /\ [][NextAlias]_vars

\* item 1 stays without its metadata while its refresh requests overlap
NextCooldown ==
    \/ Ran("fetchItems", MaxCooldownOps) /\ fetchItems(5)
    \/ \E response \in { r \in UnsyncedResponses : Len(r.results) = 1 } :
          Ran("fetchItemsOk", MaxCooldownOps) /\ fetchItemsOk(5, response)
    \/ Ran("openItem", MaxCooldownOps) /\ openItem(1)
    \/ \E response \in { r \in DetailItems(1) : shouldRefreshMetadata(r) } :
          Ran("openItemOk", MaxCooldownOps) /\ openItemOk(1, response)
    \/ Ran("refreshMetadataOk", MaxCooldownOps) /\ refreshMetadataOk(1)
    \/ Ran("refreshMetadataFail", MaxCooldownOps) /\ refreshMetadataFail(1)
    \/ Tick

SpecCooldown == Init /\ [][NextCooldown]_vars

\* logins, the update notification and the prompt opened from it
NextUpdate ==
    \/ Ran("Reload", MaxUpdateOps) /\ Reload
    \/ Ran("loadFromUser", MaxUpdateOps) /\ loadFromUser(saved)
    \/ \E policy \in {"on_login", "daily", "weekly", "never"} :
          Ran("setUpdatePolicy", MaxUpdateOps) /\ setUpdatePolicy(policy)
    \/ Ran("handleSubmit", MaxUpdateOps) /\ handleSubmit
    \/ \E latest \in Releases :
          Ran("updateCheck", MaxUpdateOps) /\ updateCheck(latest)
    \/ Ran("updateCheckFail", MaxUpdateOps) /\ updateCheckFail
    \/ Ran("openWith", MaxUpdateOps) /\ openWith
    \/ \E choice \in {"later", "ignore_version", "never"} :
          Ran("onChoice", MaxUpdateOps) /\ onChoice(choice)
    \/ Ran("onChoiceOk", MaxUpdateOps) /\ onChoiceOk
    \/ Ran("onChoiceFail", MaxUpdateOps) /\ onChoiceFail
    \/ \E ms \in {24 * 3600 * 1000, 6 * 24 * 3600 * 1000} :
          Ran("Elapse", MaxUpdateOps) /\ Elapse(ms)

SpecUpdate == Init /\ [][NextUpdate]_vars

\* the library list and its scan jobs under mutations of the library store
NextLibrary ==
    \/ Ran("fetchLibraries", MaxLibraryOps) /\ fetchLibraries
    \/ \E data \in LibraryPages \ {<<>>} :
          Ran("fetchLibrariesOk", MaxLibraryOps) /\ fetchLibrariesOk(data)
    \/ \E id \in {5, NULL} :
          Ran("setSelectedLibrary", MaxLibraryOps) /\ setSelectedLibrary(id)
    \/ Ran("createLibrary", MaxLibraryOps) /\ createLibrary
    \/ Ran("createLibraryOk", MaxLibraryOps) /\ createLibraryOk([id |-> 8, name |-> "New"])
    \/ Ran("createLibraryFail", MaxLibraryOps) /\ createLibraryFail
    \/ Ran("updateLibrary", MaxLibraryOps) /\ updateLibrary(5)
    \/ Ran("updateLibraryOk", MaxLibraryOps) /\ updateLibraryOk(5, [id |-> 5, name |-> "Films"])
    \/ Ran("updateLibraryFail", MaxLibraryOps) /\ updateLibraryFail(5)
    \/ Ran("deleteLibrary", MaxLibraryOps) /\ deleteLibrary(5)
    \/ Ran("deleteLibraryOk", MaxLibraryOps) /\ deleteLibraryOk(5)
    \/ Ran("deleteLibraryFail", MaxLibraryOps) /\ deleteLibraryFail(5)
    \/ Ran("triggerScan", MaxLibraryOps) /\ triggerScan(5)
    \/ \E response \in BackendJobs :
          Ran("triggerScanOk", MaxLibraryOps) /\ triggerScanOk(5, response)
    \/ Ran("triggerScanFail", MaxLibraryOps) /\ triggerScanFail(5)
    \/ \E event \in TriggerEvents :
          Ran("applyScanUpdate", MaxLibraryOps) /\ applyScanUpdate(event)
    \/ Ran("handleCancelScanJob", MaxLibraryOps) /\ handleCancelScanJob("abc")
    \/ Ran("handleCancelScanJobOk", MaxLibraryOps) /\ handleCancelScanJobOk("abc")
    \/ Ran("handleCancelScanJobFail", MaxLibraryOps) /\ handleCancelScanJobFail("abc")
    \/ Ran("handleDeleteQueuedScan", MaxLibraryOps) /\ handleDeleteQueuedScan("abc")
    \/ Ran("handleDeleteQueuedScanOk", MaxLibraryOps) /\ handleDeleteQueuedScanOk("abc")
    \/ Ran("handleDeleteQueuedScanFail", MaxLibraryOps)
          /\ handleDeleteQueuedScanFail("abc")

SpecLibrary == Init /\ [][NextLibrary]_vars

Next == NextScan \/ NextTrigger \/ NextMedia \/ NextRefresh \/ NextDetail
           \/ NextResume \/ NextPlayback \/ NextRemove
           \/ NextNormalize \/ NextAlias \/ NextLibrary \/ NextCooldown \/ NextUpdate

Spec == Init /\ [][Next]_vars

----------------------------------------------------------------------------
(* Properties of the scan registry (checked under SpecScan) *)

JobIn(list, id) == FindIndex(list, id) > 0
JobOf(list, id) == list[FindIndex(list, id)]

\* what an event carries for each stored field (NULL / "": the event omits it)
CarriedNumbers(event) ==
    [library |-> event.library_id,
     total_files |-> Coalesce(event.total, event.files),
     processed |-> Coalesce(event.processed_files, event.processed),
     processed_files |-> Coalesce(event.processed_files, event.processed),
     new_files |-> event.new_files,
     updated_files |-> event.updated_files,
     removed_files |-> event.removed_files,
     matched_items |-> event.matched,
     unmatched_files |-> event.unmatched]

CarriedStrings(event) ==
    [status |-> event.status,
     library_name |-> event.library_name,
     summary |-> OrElse(event.summary, event.message)]

EventWins(old, new, event) ==
    /\ \A k \in DOMAIN CarriedNumbers(event) :
          new[k] = IF CarriedNumbers(event)[k] # NULL
                   THEN CarriedNumbers(event)[k] ELSE old[k]
    /\ \A k \in DOMAIN CarriedStrings(event) :
          new[k] = IF CarriedStrings(event)[k] # ""
                   THEN CarriedStrings(event)[k] ELSE old[k]

\* C1: when applyScanUpdate merges an event into a job already stored in a
\* bucket, every field the event carries overwrites the stored value and every
\* field the event omits (status, library, library_name, summary and the
\* counters) keeps its stored value.
C1_EventWinsWhenPresent ==
    [][last' = "applyScanUpdate" =>
        \A event \in ScanEvents :
           applyScanUpdate(event) =>
              \A k \in keysToUpdate(event.library_id) :
                 JobIn(Bucket(k), event.scan_id) =>
                    EventWins(JobOf(Bucket(k), event.scan_id),
                              JobOf(scans'[k], event.scan_id), event)]_vars

\* the counters of a job as a snapshot record or an event leaves them
FullyProcessed(job) ==
    job["total_files"] # NULL =>
       job["processed"] = job["total_files"] /\ job["processed_files"] = job["total_files"]

\* C2: a job stored as completed by a snapshot record or an event that carried
\* no explicit processed count has processed = processed_files = total.
C2_CompletedIsFullyProcessed ==
    [][/\ last' = "applyScanUpdate" =>
            \A event \in ScanEvents :
               ( /\ applyScanUpdate(event)
                 /\ event.status = "completed"
                 /\ event.processed_files = NULL /\ event.processed = NULL ) =>
                  \A k \in keysToUpdate(event.library_id) :
                     FullyProcessed(JobOf(scans'[k], event.scan_id))
       /\ last' = "fetchScansOk" =>
            \A libraryId \in {NULL, 5}, payload \in ScanPages :
               fetchScansOk(libraryId, payload) =>
                  \A i \in 1..Len(payload) :
                     ( /\ payload[i]["status"] = "completed"
                       /\ payload[i]["processed_files"] = NULL ) =>
                        FullyProcessed(scans'[KeyOf(libraryId)][i])]_vars

\* status and counters of a stored job
Progress(job) ==
    [k \in {"status", "processed", "processed_files", "total_files", "new_files",
            "updated_files", "removed_files", "matched_items", "unmatched_files"}
       |-> job[k]]

\* C3: an event for a job held in a library bucket and in "all" is merged into
\* both, also when the event omits library_id, so the two entries of the job
\* keep the same status and counters.
C3_EventReachesBothBuckets ==
    [][last' = "applyScanUpdate" =>
        \A event \in ScanEvents :
           applyScanUpdate(event) =>
              \A k \in DOMAIN scans \ {"all"} :
                 ( /\ JobIn(Bucket(k), event.scan_id)
                   /\ JobIn(Bucket("all"), event.scan_id)
                   /\ Progress(JobOf(Bucket(k), event.scan_id))
                        = Progress(JobOf(Bucket("all"), event.scan_id)) ) =>
                    /\ Progress(JobOf(scans'[k], event.scan_id))
                         = Progress(JobOf(scans'["all"], event.scan_id))
                    /\ event.status # "" =>
                          JobOf(scans'[k], event.scan_id)["status"] = event.status]_vars

\* C4: every stored job whose total is known and positive has
\* 0 <= processed <= total.
C4_ClampInvariant ==
    \A k \in DOMAIN scans :
       \A i \in 1..Len(scans[k]) :
          (scans[k][i]["total_files"] # NULL /\ scans[k][i]["total_files"] > 0) =>
             /\ 0 <= scans[k][i]["processed"]
             /\ scans[k][i]["processed"] <= scans[k][i]["total_files"]

\* C5: once finished_at of a job is set, no applyScanUpdate changes or clears it.
C5_FinishedAtIsKept ==
    [][last' = "applyScanUpdate" =>
        \A k \in DOMAIN scans :
           \A i \in 1..Len(scans[k]) :
              scans[k][i]["finished_at"] # NULL =>
                 JobOf(scans'[k], scans[k][i]["id"])["finished_at"]
                    = scans[k][i]["finished_at"]]_vars

----------------------------------------------------------------------------
(* Properties of the media item cache (checked under SpecMedia) *)

IsSorted(list) ==
    \A i \in 1..Len(list) : \A j \in i..Len(list) : Compare(list[i], list[j]) <= 0

Ids(list) == { list[i]["id"] : i \in 1..Len(list) }

Entries(list) == { list[i] : i \in 1..Len(list) }

\* the cached entry with this id, EmptyObj when there is none
Cached(list, id) ==
    IF id \in Ids(list) THEN CHOOSE e \in Entries(list) : e["id"] = id ELSE EmptyObj

\* C6: upsertItems is idempotent: in every cache state, applying upsertItems(L)
\* to the result of upsertItems(L) gives the items (entries and order) and the
\* total of applying it once.
C6_UpsertIdempotent ==
    \A itemsToUpsert \in UpsertLists :
       LET once == upsertItems(itemsToUpsert, items, total, selectedLibraryId)
       IN  upsertItems(itemsToUpsert, once[1], once[2], selectedLibraryId) = once

\* an upsert has merged a partial item into a cache whose entries tie in the order
C6_Witness ==
    /\ last = "upsertItems"
    /\ selectedLibraryId # NULL
    /\ Len(items) = 2
    /\ Compare(items[1], items[2]) = 0
    /\ items[1]["id"] > items[2]["id"]

\* the incoming items carry a library id other than the selected one
AllForeign(itemsToUpsert) ==
    /\ itemsToUpsert # <<>>
    /\ \A i \in 1..Len(itemsToUpsert) :
          /\ Has(itemsToUpsert[i], "library")
          /\ itemsToUpsert[i]["library"] # selectedLibraryId

\* C7: upsertItems called only with items of another library than the selected
\* one leaves items (contents and order) and total as they were.
C7_CrossLibraryGuard ==
    [][last' = "upsertItems" =>
        \A itemsToUpsert \in UpsertLists :
           (UpsertItems(itemsToUpsert) /\ AllForeign(itemsToUpsert)) =>
              items' = items /\ total' = total]_vars

\* C8: an upsert (direct or through an event's embedded item) never changes the
\* library id of an entry that stays in the cache.
C8_LibraryIdImmutable ==
    [][last' \in {"upsertItems", "applyScanUpdate"} =>
        \A e \in Entries(items) :
           Has(e, "library") =>
              \A f \in Entries(items') :
                 f["id"] = e["id"] => Has(f, "library") /\ f["library"] = e["library"]]_vars

ItemKeys ==
    {"id", "library", "title", "sort_title", "poster_url", "metadata_last_synced_at"}

\* the accepted items of the list that carry key k for this id, by position
Carriers(itemsToUpsert, id, k) ==
    { i \in 1..Len(itemsToUpsert) :
        /\ ~Skipped(itemsToUpsert[i], selectedLibraryId)
        /\ itemsToUpsert[i]["id"] = id
        /\ Has(itemsToUpsert[i], k) }

Max(S) == CHOOSE x \in S : \A y \in S : y <= x

AcceptedIds(itemsToUpsert) ==
    { itemsToUpsert[i]["id"] :
        i \in { j \in 1..Len(itemsToUpsert) : ~Skipped(itemsToUpsert[j], selectedLibraryId) } }

\* C9: after upsertItems(L) with a selected library, every accepted incoming item
\* is merged incoming-wins into the entry of its id (created if absent, other
\* fields retained), the other entries are unchanged, the collection is in
\* ascending case-insensitive sort_title/title order, and total is its length.
\* Stated of the result of upsertItems in every reachable cache state.
C9_UpsertMergesAndSorts ==
    selectedLibraryId # NULL =>
       \A itemsToUpsert \in UpsertLists \ {<<>>} :
          LET result == upsertItems(itemsToUpsert, items, total, selectedLibraryId)
              after == result[1]
              accepted == AcceptedIds(itemsToUpsert)
          IN  /\ Ids(after) = Ids(items) \cup accepted
              /\ Len(after) = Cardinality(Ids(after))
              /\ \A id \in accepted :
                    LET new == Cached(after, id)
                        old == Cached(items, id)
                    IN  \A k \in ItemKeys :
                           LET c == Carriers(itemsToUpsert, id, k)
                           IN  IF c # {}
                               THEN Has(new, k) /\ new[k] = itemsToUpsert[Max(c)][k]
                               ELSE /\ Has(new, k) <=> Has(old, k)
                                    /\ Has(old, k) => new[k] = old[k]
              /\ \A id \in Ids(items) \ accepted : Cached(after, id) = Cached(items, id)
              /\ IsSorted(after)
              /\ result[2] = Len(after)

\* an upsert has added a field to an entry that kept its other fields
C9_Witness ==
    /\ last = "upsertItems"
    /\ selectedLibraryId # NULL
    /\ Len(items) = 2
    /\ \E e \in Entries(items) :
          /\ Has(e, "sort_title") /\ Has(e, "title") /\ Has(e, "library")
          /\ e["title"] = "B"

IsPermutation(a, b) ==
    /\ Len(a) = Len(b)
    /\ \E f \in [1..Len(a) -> 1..Len(a)] :
          /\ \A i, j \in 1..Len(a) : f[i] = f[j] => i = j
          /\ \A i \in 1..Len(a) : a[i] = b[f[i]]

\* C10: a successful fetchItems replaces the collection by the response's items
\* in ascending case-insensitive sort_title/title order, whatever order the
\* backend returned them in; total is the envelope's count, else the length.
C10_FetchReplacesSorted ==
    [][last' = "fetchItemsOk" =>
        \A libraryId \in LibraryIds :
           \A response \in ItemResponses(libraryId) :
              fetchItemsOk(libraryId, response) =>
                 /\ IsPermutation(items', response.results)
                 /\ IsSorted(items')
                 /\ total' = IF response.count # NULL THEN response.count
                             ELSE Len(response.results)]_vars

\* C11: when the list request of fetchItems fails, items and total stay what
\* they were when the failure is handled, error is set, loading becomes false
\* and nothing is thrown to the caller.
C11_FetchFailureKeepsItems ==
    [][last' = "fetchItemsFail" =>
        /\ items' = items
        /\ total' = total
        /\ error' # ""
        /\ loading' = FALSE
        /\ rejected' = FALSE]_vars

\* a fetch has failed over a cache filled by an earlier fetch
C11_Witness ==
    /\ last = "fetchItemsFail"
    /\ Len(items) = 2
    /\ total = 7
    /\ error # ""
    /\ ~loading

\* C12: a fetchItems response is applied to the cache only if it belongs to
\* the most recently issued fetchItems: the response of an older request,
\* arriving while or after a newer one was issued, changes neither items nor total.
C12_OnlyNewestFetchApplies ==
    [][last' = "fetchItemsOk" =>
        \A libraryId \in LibraryIds :
           \A response \in ItemResponses(libraryId) :
              (fetchItemsOk(libraryId, response) /\ libraryId # history.newestFetch) =>
                 items' = items /\ total' = total]_vars

----------------------------------------------------------------------------
(* Properties of the detail view (checked under SpecDetail) *)

\* C13: a late openItem response is applied only if its id is still the one
\* requested last: after closeItem or a newer openItem for another id, the
\* response leaves activeItem and activeProgress alone; closeItem clears
\* activeItem, activeProgress and resumePrompt and cancels no request.
C13_LateOpenResponseIgnored ==
    [][/\ last' = "openItemOk" =>
            \A id \in {1, 3} :
               \A response \in DetailItems(id) :
                  (openItemOk(id, response) /\ history.newestOpen # id) =>
                     activeItem' = activeItem /\ activeProgress' = activeProgress
       /\ last' = "closeItem" =>
            /\ activeItem' = EmptyObj
            /\ activeProgress' = EmptyObj
            /\ resumePrompt' = EmptyObj
            /\ pending' = pending]_vars

\* every field of the active item is in the cache entry of its id, with the same value
GridAgrees(list, active) ==
    /\ active["id"] \in Ids(list)
    /\ \A k \in DOMAIN active :
          Has(Cached(list, active["id"]), k) /\ Cached(list, active["id"])[k] = active[k]

OpenItemStored(response) ==
    /\ activeItem' = response
    /\ activeProgress' = ProgressOf(response)
    /\ activeItemLoading' = FALSE
    /\ loading' = loading

C15_OpenFailureKeepsState ==
    [][(last = "openItem" /\ last' = "openItemFail") =>
        /\ rejected'
        /\ activeItemLoading' = FALSE
        /\ <<activeItem', activeProgress', resumePrompt', items', total', loading',
             error'>> = history.beforeOpen]_vars

----------------------------------------------------------------------------
(* Failure of the scan list request (checked under SpecScan) *)

\* C16: when the request of fetchScans fails, every bucket of scans stays as it
\* was, scansLoading becomes false, the store's error flag is set and nothing
\* is thrown to the caller.
C16_FetchScansFailureFlagged ==
    [][last' = "fetchScansFail" =>
        /\ scans' = scans
        /\ scansLoading' = FALSE
        /\ libError' # ""
        /\ rejected' = FALSE]_vars

----------------------------------------------------------------------------
(* Events and the media item cache (checked under SpecMedia) *)

\* C17: an event without a job id is dropped: applyScanUpdate changes no
\* bucket of scans, leaves the media item cache alone also when the event
\* embeds a media_item, and throws nothing.
C17_EventWithoutIdDropped ==
    [][last' = "applyScanUpdate" =>
        \A event \in MalformedItemEvents :
           applyScanUpdate(event) =>
              /\ scans' = scans
              /\ items' = items
              /\ total' = total
              /\ rejected' = FALSE]_vars

\* an event without a job id arrived while a library was selected, so that
\* upsertItems would have taken its item
C17_Witness ==
    /\ last = "applyScanUpdate"
    /\ selectedLibraryId = 5
    /\ scans = <<>>

\* C18: applyScanUpdate forwards the media_item of an event that has a job id
\* to upsertItems in the same handler: when a library is selected and the
\* item carries no other library id, the cache entry of the item's id is
\* afterwards the old entry overlaid with the item; no request is issued.
C18_EventItemReachesGrid ==
    [][last' = "applyScanUpdate" =>
        \A event \in ItemEvents :
           applyScanUpdate(event) =>
              /\ pending' = pending
              /\ "all" \in DOMAIN scans'
              /\ JobIn(scans'["all"], event.scan_id)
              /\ (selectedLibraryId # NULL
                     /\ ~Skipped(event.media_item[1], selectedLibraryId)) =>
                    Cached(items', event.media_item[1]["id"])
                       = Spread(Cached(items, event.media_item[1]["id"]),
                                event.media_item[1])]_vars

\* an event's item was merged into an entry that a fetch had put in the cache
C18_Witness ==
    /\ last = "applyScanUpdate"
    /\ selectedLibraryId = 5
    /\ "all" \in DOMAIN scans
    /\ \E e \in Entries(items) : Has(e, "sort_title") /\ Has(e, "poster_url")

----------------------------------------------------------------------------
(* Triggered scans (checked under SpecTrigger) *)

\* C19: when the response of triggerScan(id) is handled, the returned job,
\* normalized, is put at the head of scans[id] and of scans['all'], whether
\* or not an event for the job has arrived; the entries both buckets held
\* follow it unchanged.
C19_TriggeredJobHeadsBothBuckets ==
    [][last' = "triggerScanOk" =>
        \A response \in BackendJobs :
           triggerScanOk(5, response) =>
              \A k \in {"5", "all"} :
                 /\ k \in DOMAIN scans'
                 /\ scans'[k] = <<normalizeScanEntry(response)>> \o Bucket(k)]_vars

\* a triggered job was inserted in front of entries both buckets already held
C19_Witness ==
    /\ last = "triggerScanOk"
    /\ "5" \in DOMAIN scans /\ "all" \in DOMAIN scans
    /\ Len(scans["5"]) >= 2
    /\ Len(scans["all"]) >= 2
    /\ scans["5"][1]["status"] = "running"
    /\ scans["all"][1] = scans["5"][1]

\* events that carry their status and absolute counters
SelfDescribingEvents ==
    { e \in ScanEvents :
        /\ e.status # ""
        /\ Coalesce(e.processed_files, e.processed) # NULL
        /\ Coalesce(e.total, e.files) # NULL }

\* C20: for two self-describing events e1, e2 of one job, merging e1 then e2
\* into a bucket stores the same status and counters for the job as merging
\* e2 then e1 (timestamps aside).  Stated of every bucket reached under SpecScan.
C20_EventMergeConverges ==
    \A k \in DOMAIN scans :
       \A e1, e2 \in SelfDescribingEvents :
          e1.library_id = e2.library_id =>
             Progress(JobOf(updateList(updateList(scans[k], e1, e1.library_id, now),
                                       e2, e2.library_id, now), "abc"))
               = Progress(JobOf(updateList(updateList(scans[k], e2, e2.library_id, now),
                                           e1, e1.library_id, now), "abc"))

----------------------------------------------------------------------------
(* Background metadata refresh (checked under SpecRefresh) *)

\* the refresh requests for an item that a step issues
Issued(id) == pending'[RefreshRequest(id)] - pending[RefreshRequest(id)]

\* the newest refresh request for the item was issued less than the cooldown ago
InCooldown(id) ==
    /\ history.refresh[id].at # NULL
    /\ now - history.refresh[id].at < METADATA_REFRESH_COOLDOWN_MS

\* C21 as claimed: an item that stays without its metadata, queued again
\* (not forced) by a fetchItems result or by an upsert within 60 seconds of
\* the newest request for it, gets no further request; queued at or after
\* 60 seconds (or for the first time), it gets one.
C21_CooldownPerId ==
    [][/\ last' = "fetchItemsOk" =>
            \A response \in UnsyncedResponses :
               fetchItemsOk(5, response) =>
                  \A i \in 1..Len(response.results) :
                     shouldRefreshMetadata(response.results[i]) =>
                        Issued(response.results[i]["id"])
                           = IF InCooldown(response.results[i]["id"]) THEN 0 ELSE 1
       /\ last' = "upsertItems" =>
            \A x \in UnsyncedItems :
               (UpsertItems(<<x>>) /\ selectedLibraryId # NULL) =>
                  Issued(x["id"]) = IF InCooldown(x["id"]) THEN 0 ELSE 1]_vars

\* C21 amended: queued again by a fetchItems result within 60 seconds of the
\* newest request for it, with no refresh request for it having failed since,
\* the item gets no further request; queued by a fetchItems result at or
\* after 60 seconds (or for the first time), it gets one; upsertItems issues
\* no request.
C21_CooldownPerIdOnFetch ==
    [][/\ last' = "fetchItemsOk" =>
            \A response \in UnsyncedResponses :
               fetchItemsOk(5, response) =>
                  \A i \in 1..Len(response.results) :
                     LET id == response.results[i]["id"]
                     IN  shouldRefreshMetadata(response.results[i]) =>
                            /\ (InCooldown(id) /\ ~history.refresh[id].failed) =>
                                  Issued(id) = 0
                            /\ ~InCooldown(id) => Issued(id) = 1
       /\ last' = "upsertItems" =>
            \A id \in {1, 2, 3} : Issued(id) = 0]_vars

\* a fetch 60 seconds after the first request has issued the second one
C21_Witness ==
    /\ last = "fetchItemsOk"
    /\ now = StartTime + METADATA_REFRESH_COOLDOWN_MS
    /\ history.refresh[1] = [at |-> now, failed |-> FALSE, n |-> 2]
    /\ pending[RefreshRequest(1)] = 2
    /\ nops = 4

\* C22: a successful openItem of an item without its metadata issues a refresh
\* request also within the cooldown and sets the item's cooldown entry to the
\* time of that request; an item that has its metadata gets no request from
\* openItem or from fetchItems.
C22_OpenItemForcesRefresh ==
    [][/\ last' = "openItemOk" =>
            \A id \in {1, 3} :
               \A response \in DetailItems(id) :
                  openItemOk(id, response) =>
                     IF shouldRefreshMetadata(response)
                     THEN /\ Issued(id) = 1
                          /\ id \in DOMAIN metadataRequestCache'
                          /\ metadataRequestCache'[id] = now
                     ELSE \A j \in {1, 2, 3} : Issued(j) = 0
       /\ last' = "fetchItemsOk" =>
            \A response \in UnsyncedResponses :
               fetchItemsOk(5, response) =>
                  \A i \in 1..Len(response.results) :
                     ~shouldRefreshMetadata(response.results[i]) =>
                        Issued(response.results[i]["id"]) = 0]_vars

\* openItem has issued a second request at the instant of the first one
C22_Witness ==
    /\ last = "openItemOk"
    /\ now = StartTime
    /\ history.refresh[1] = [at |-> now, failed |-> FALSE, n |-> 2]
    /\ pending[RefreshRequest(1)] = 2

\* C23: when a refresh request for an item fails, the item's cooldown entry is
\* removed, and the next fetchItems result that holds the item still without
\* its metadata issues a new request, however little time has passed.
C23_FailureClearsCooldown ==
    [][/\ last' = "refreshMetadataFail" =>
            \A id \in {1, 2, 3} :
               refreshMetadataFail(id) => id \notin DOMAIN metadataRequestCache'
       /\ last' = "fetchItemsOk" =>
            \A response \in UnsyncedResponses :
               fetchItemsOk(5, response) =>
                  \A i \in 1..Len(response.results) :
                     ( /\ shouldRefreshMetadata(response.results[i])
                       /\ history.refresh[response.results[i]["id"]].failed ) =>
                        Issued(response.results[i]["id"]) = 1]_vars

\* a fetch has issued a new request at the instant the first one was issued and failed
C23_Witness ==
    /\ last = "fetchItemsOk"
    /\ now = StartTime
    /\ nops = 5
    /\ history.refresh[1] = [at |-> now, failed |-> FALSE, n |-> 2]
    /\ pending[RefreshRequest(1)] = 1

----------------------------------------------------------------------------
(* Resume offer (checked under SpecResume) *)

\* duration known and positive, and more than 4% of it remaining
Resumable(progress) ==
    /\ progress.duration_ms # NULL
    /\ progress.duration_ms > 0
    /\ (progress.duration_ms - progress.position_ms) * 100 > 4 * progress.duration_ms

InRange(progress) ==
    /\ progress # EmptyObj
    /\ progress.position_ms # NULL
    /\ progress.duration_ms = NULL \/ progress.position_ms <= progress.duration_ms

\* C24: a progress record with its position in [0, duration] is resumable
\* exactly when its duration is known and positive and duration - position is
\* strictly greater than 4% of the duration; nothing else, such as the
\* position being 0, affects the result.
C24_ResumeGuardBand ==
    InRange(activeProgress) =>
       (canResume(activeProgress) <=> Resumable(activeProgress))

\* C24 (amended): a progress record with its position in [0, duration] is
\* resumable exactly when its duration is known and positive, its position is
\* not 0 and duration - position is strictly greater than 4% of the duration;
\* so position = duration is not resumable, position = 50% of the duration
\* is, position = 97% of the duration is not, and position = 0 is not.
C24_ResumeGuardBandPastStart ==
    /\ InRange(activeProgress) =>
          (canResume(activeProgress) <=>
              (Resumable(activeProgress) /\ activeProgress.position_ms # 0))
    /\ ( /\ InRange(activeProgress)
         /\ activeProgress.duration_ms = MaxDurationMs ) =>
          /\ activeProgress.position_ms = MaxDurationMs => ~canResume(activeProgress)
          /\ activeProgress.position_ms = MaxDurationMs \div 2 => canResume(activeProgress)
          /\ activeProgress.position_ms * 100 = MaxDurationMs * 97 =>
                ~canResume(activeProgress)
          /\ activeProgress.position_ms = 0 => ~canResume(activeProgress)

\* a record half way through is on offer and its resume position was asked for
C24_Witness ==
    /\ last = "requestResume"
    /\ activeProgress # EmptyObj
    /\ activeProgress.duration_ms = MaxDurationMs
    /\ activeProgress.position_ms = MaxDurationMs \div 2
    /\ canResume(activeProgress)
    /\ pending[[op |-> "requestResume", arg |-> 9]] = 1

----------------------------------------------------------------------------
(* Playback plan of a show (checked under SpecPlayback) *)

IsShow == activeItem # EmptyObj /\ GetS(activeItem, "item_type") = "show"

Least(S) == CHOOSE i \in S : \A j \in S : i <= j

\* C25: for a show with episodes, resumeEpisode is the episode with the
\* summary's resume_episode_id if the list has one; else the first episode in
\* order that is in progress; else the first one that is not watched; else the
\* first of the list.  It is never null and always an episode of the list.
C25_ResumeEpisodePriority ==
    (IsShow /\ episodes # <<>>) =>
       LET sorted == orderedEpisodes(episodes)
           plan == playbackPlan(activeItem, episodes)
           summary == showWatchSummary(activeItem)
           declared == { i \in 1..Len(sorted) :
                            /\ summary # EmptyObj
                            /\ sorted[i].id = summary.resume_episode_id }
           inProgress == { i \in 1..Len(sorted) :
                              /\ sorted[i].watch_summary # EmptyObj
                              /\ sorted[i].watch_summary.status = "in_progress" }
           notWatched == { i \in 1..Len(sorted) :
                              \/ sorted[i].watch_summary = EmptyObj
                              \/ sorted[i].watch_summary.status # "watched" }
       IN  /\ plan.resumeEpisode =
                 IF declared # {} THEN sorted[Least(declared)]
                 ELSE IF inProgress # {} THEN sorted[Least(inProgress)]
                 ELSE IF notWatched # {} THEN sorted[Least(notWatched)]
                 ELSE sorted[1]
           /\ plan.resumeEpisode # EmptyObj
           /\ \E i \in 1..Len(sorted) : sorted[i] = plan.resumeEpisode

\* the declared resume episode is not listed, so the primary action has
\* started the episode in progress, the second of the list
C25_Witness ==
    /\ last = "handlePrimaryAction"
    /\ IsShow
    /\ showWatchSummary(activeItem) # EmptyObj
    /\ showWatchSummary(activeItem).resume_episode_id = 99
    /\ Len(episodes) = 2
    /\ orderedEpisodes(episodes)[1].id = 11
    /\ playbackPlan(activeItem, episodes).resumeEpisode.id = 12
    /\ video # EmptyObj
    /\ video.mediaItemId = 12

\* C26: nextEpisode is the episode with the summary's next_episode_id if the
\* ordered list has one; otherwise the episode right after resumeEpisode in
\* the ordered list if there is one; otherwise null.
C26_NextEpisodeResolution ==
    (IsShow /\ episodes # <<>>) =>
       LET sorted == orderedEpisodes(episodes)
           plan == playbackPlan(activeItem, episodes)
           summary == showWatchSummary(activeItem)
           declared == { i \in 1..Len(sorted) :
                            /\ summary # EmptyObj
                            /\ sorted[i].id = summary.next_episode_id }
           at == { i \in 1..Len(sorted) : sorted[i] = plan.resumeEpisode }
       IN  plan.nextEpisode =
              IF declared # {} THEN sorted[Least(declared)]
              ELSE IF at # {} /\ Least(at) < Len(sorted) THEN sorted[Least(at) + 1]
              ELSE EmptyObj

\* the declared next episode is not listed: the next episode is the one
\* behind the resume episode
C26_Witness ==
    /\ last = "loadEpisodesOk"
    /\ IsShow
    /\ showWatchSummary(activeItem) # EmptyObj
    /\ showWatchSummary(activeItem).next_episode_id = 99
    /\ Len(episodes) = 2
    /\ playbackPlan(activeItem, episodes).resumeEpisode.id = 12
    /\ playbackPlan(activeItem, episodes).nextEpisode = orderedEpisodes(episodes)[2]
    /\ playbackPlan(activeItem, episodes).nextEpisode.id = 15

\* the number of times x occurs in list
Count(list, x) == Cardinality({ i \in 1..Len(list) : list[i] = x })

SameEpisodes(a, b) == \A x \in Episodes : Count(a, x) = Count(b, x)

\* a is not behind b by season number, episode number and title, missing
\* numbers counting as 0
InOrderByTitle(a, b) ==
    LET seasonA == IF a.season_number = NULL THEN 0 ELSE a.season_number
        seasonB == IF b.season_number = NULL THEN 0 ELSE b.season_number
        episodeA == IF a.episode_number = NULL THEN 0 ELSE a.episode_number
        episodeB == IF b.episode_number = NULL THEN 0 ELSE b.episode_number
    IN  \/ seasonA < seasonB
        \/ seasonA = seasonB /\ episodeA < episodeB
        \/ seasonA = seasonB /\ episodeA = episodeB
                             /\ Collation(a.title) <= Collation(b.title)

\* C27: orderedEpisodes is a permutation of the fetched list, ascending by
\* season number, then episode number, then title, a missing number or title
\* counting as 0 or empty; the result is the same for every order in which
\* the same episodes are fetched.
C27_OrderedWhateverInputOrder ==
    LET sorted == orderedEpisodes(episodes)
    IN  /\ SameEpisodes(sorted, episodes)
        /\ \A i, j \in 1..Len(sorted) : i < j => InOrderByTitle(sorted[i], sorted[j])
        /\ \A other \in EpisodeLists :
              SameEpisodes(other, episodes) => orderedEpisodes(other) = sorted

\* C28: the ordered episode sequence holds each episode id at most once; two
\* entries of the fetched list with the same id are collapsed to one.
C28_EpisodeIdsUnique ==
    LET sorted == orderedEpisodes(episodes)
    IN  \A i, j \in 1..Len(sorted) : i # j => sorted[i].id # sorted[j].id

\* what the playback surface has received when the episode with this id starts
Handoff(id) ==
    /\ video' # EmptyObj
    /\ video'.mediaItemId = id
    /\ video'.playbackSequence # EmptyObj
    /\ LET handed == video'.playbackSequence
       IN  /\ handed.episodeIds = IdsOf(orderedEpisodes(episodes))
           /\ 0 <= handed.currentIndex
           /\ handed.currentIndex < Len(handed.episodeIds)
           /\ handed.episodeIds[handed.currentIndex + 1] = id

\* C29: whenever an episode is started, by the primary action or by the Play
\* button of its row, the playback surface receives the ids of all ordered
\* episodes and a starting index within the sequence at which the id of the
\* started episode stands.
C29_HandoffIndexPointsAtEpisode ==
    [][/\ ( /\ last' = "handlePrimaryAction"
            /\ handlePrimaryAction(TRUE)
            /\ episodes # <<>> ) =>
               Handoff(playbackPlan(activeItem, episodes).resumeEpisode.id)
       /\ last' = "handlePlayEpisode" =>
            \A i \in 1..Len(episodes) :
               playEpisodeRow(i, TRUE) => Handoff(orderedEpisodes(episodes)[i].id)]_vars

\* the Play button of the second of two episodes has started it at index 1
C29_Witness ==
    /\ last = "handlePlayEpisode"
    /\ video # EmptyObj
    /\ video.playbackSequence # EmptyObj
    /\ Len(video.playbackSequence.episodeIds) = 2
    /\ video.playbackSequence.currentIndex = 1
    /\ video.mediaItemId = video.playbackSequence.episodeIds[2]
    /\ video.mediaItemId # video.playbackSequence.episodeIds[1]

----------------------------------------------------------------------------
(* Removal from the media item cache (checked under SpecRemove) *)

\* the index in list of the k-th item whose id is not in ids
KeptAt(list, ids, k) ==
    CHOOSE i \in 1..Len(list) :
       /\ list[i]["id"] \notin ids
       /\ Cardinality({ j \in 1..i : list[j]["id"] \notin ids }) = k

\* C30: after removeItems(ids), ids being one id or a list, no cached item has
\* an id in ids, every other item is retained in its previous relative order
\* and total is the number of remaining items; removing ids that are not
\* cached changes no item.
C30_RemoveItems ==
    [][last' = "removeItems" =>
          \A ids \in RemoveInputs :
             removeItems(ids) =>
                LET gone == idSet(ids)
                    kept == { i \in 1..Len(items) : items[i]["id"] \notin gone }
                IN  /\ \A i \in 1..Len(items') : items'[i]["id"] \notin gone
                    /\ Len(items') = Cardinality(kept)
                    /\ \A k \in 1..Len(items') :
                          k <= Cardinality(kept) => items'[k] = items[KeptAt(items, gone, k)]
                    /\ total' = Len(items')
                    /\ kept = 1..Len(items) => items' = items]_vars

\* removeItems has taken the first of two cached items out; the other one is left
C30_Witness ==
    /\ last = "removeItems"
    /\ history.removed = {1}
    /\ Len(items) = 1
    /\ items[1]["id"] = 2
    /\ total = 1

----------------------------------------------------------------------------
(* Progress normalizer (checked under SpecNormalize) *)

\* C31: normalizeScanEntry gives a result for every record, the null record
\* and records missing any field included, and applied to its own result it
\* gives that result again.
C31_NormalizeTotalIdempotent ==
    [][last' = "normalizeScanEntry" =>
          /\ scanEntry' = normalizeScanEntry(scanEntry)
          /\ normalizeScanEntry(scanEntry') = scanEntry'
          /\ scanEntry = NullScan => scanEntry' = NullScan
          /\ scanEntry # NullScan =>
                /\ {"processed", "processed_files"} \subseteq DOMAIN scanEntry'
                /\ scanEntry'["processed"] # NULL]_vars

\* the second pass over a completed record without a count has left the total
\* the first pass filled in
C31_Witness ==
    /\ last = "normalizeScanEntry"
    /\ nops = 2
    /\ scanEntry # NullScan
    /\ DOMAIN scanEntry = {"id", "status", "total_files", "processed", "processed_files"}
    /\ scanEntry["status"] = "completed"
    /\ scanEntry["processed"] = 10
    /\ scanEntry["processed_files"] = 10

----------------------------------------------------------------------------
(* Canonical and alias counters (checked under SpecAlias) *)

\* C32: every job stored in any bucket, after fetchScans, triggerScan or
\* applyScanUpdate, has processed equal to processed_files, also when the
\* record or event that came in carried two different values for them.
C32_AliasNeverDiverges ==
    \A k \in DOMAIN scans :
       \A i \in 1..Len(scans[k]) :
          /\ {"processed", "processed_files"} \subseteq DOMAIN scans[k][i]
          /\ scans[k][i]["processed"] = scans[k][i]["processed_files"]

\* an event with processed_files 15 and processed 4 has been merged into a
\* job the backend listed with processed_files 4 and processed 3
C32_Witness ==
    /\ last = "applyScanUpdate"
    /\ nops = 3
    /\ "5" \in DOMAIN scans
    /\ Len(scans["5"]) = 1
    /\ scans["5"][1]["created_at"] = 0
    /\ scans["5"][1]["processed"] = 15
    /\ scans["5"][1]["processed_files"] = 15

----------------------------------------------------------------------------
(* Mutations of the library store (checked under SpecLibrary) *)

JobsOf(key, id) ==
    IF key \in DOMAIN scans'
    THEN { i \in 1..Len(scans'[key]) : scans'[key][i]["library"] = id }
    ELSE {}

\* C33: when deleteLibrary succeeds, neither the library's own bucket nor the
\* bucket 'all' holds a job of the deleted library any more, the library is
\* off the list and the selection is cleared if it was the deleted library.
C33_DeleteLibraryDropsItsJobs ==
    [][last' = "deleteLibraryOk" =>
          ( deleteLibraryOk(5) =>
               /\ JobsOf("5", 5) = {}
               /\ JobsOf("all", 5) = {}
               /\ \A i \in 1..Len(libraries') : libraries'[i]["id"] # 5
               /\ selectedLibrary = 5 => selectedLibrary' = NULL )]_vars

\* C34: a failing createLibrary, updateLibrary, deleteLibrary or triggerScan
\* rejects to its caller and leaves libraries, the selection and every bucket
\* of scans as they were; cancelling or dequeuing a scan job changes no
\* bucket of scans, whether the request succeeds or fails.
C34_FailedMutationChangesNothing ==
    [][/\ last' \in {"createLibraryFail", "updateLibraryFail", "deleteLibraryFail",
                     "triggerScanFail"} =>
             /\ rejected'
             /\ libraries' = libraries
             /\ selectedLibrary' = selectedLibrary
             /\ scans' = scans
       /\ last' \in {"handleCancelScanJob", "handleCancelScanJobOk",
                     "handleCancelScanJobFail", "handleDeleteQueuedScan",
                     "handleDeleteQueuedScanOk", "handleDeleteQueuedScanFail"} =>
             scans' = scans]_vars

\* deleteLibrary has failed with the libraries listed, one selected and a job
\* in the registry
C34_Witness ==
    /\ last = "deleteLibraryFail"
    /\ rejected
    /\ Len(libraries) = 2
    /\ "all" \in DOMAIN scans
    /\ Len(scans["all"]) = 1

----------------------------------------------------------------------------
(* The scan registry under interleavings (checked under SpecTrigger) *)

\* C35: within every bucket of scans the job ids are pairwise distinct, after
\* any interleaving of triggerScan responses, scan events and fetchScans
\* responses, also when a job's first event is handled before the response
\* of the triggerScan that created it.
C35_JobIdsUniqueInBucket ==
    \A k \in DOMAIN scans :
       \A i, j \in 1..Len(scans[k]) :
          scans[k][i]["id"] = scans[k][j]["id"] => i = j

----------------------------------------------------------------------------
(* Overlapping list fetches (checked under SpecMedia) *)

\* C36: loading is true whenever a fetchItems request has been issued and has
\* not completed yet, also when two fetches overlap and the first completes
\* while the second is still outstanding.
C36_LoadingWhileFetchOutstanding ==
    (\E libraryId \in LibraryIds :
        pending[[op |-> "fetchItems", arg |-> libraryId]] > 0) => loading

\* an upsert that adds no item: every incoming item is skipped by the guards
\* or updates an item that is cached already
OnlyUpdates(itemsToUpsert) ==
    \A i \in 1..Len(itemsToUpsert) :
       \/ Skipped(itemsToUpsert[i], selectedLibraryId)
       \/ \E j \in 1..Len(items) : items[j]["id"] = itemsToUpsert[i]["id"]

\* C37: when the fetched envelope's count is larger than the number of items
\* returned, an upsertItems that only updates cached items, or whose inputs
\* are all rejected by the library guard, leaves total as it was.
C37_UpsertKeepsEnvelopeTotal ==
    [][(last' = "upsertItems" /\ total > Len(items)) =>
          \A itemsToUpsert \in UpsertLists :
             (UpsertItems(itemsToUpsert) /\ OnlyUpdates(itemsToUpsert))
                => total' = total]_vars

----------------------------------------------------------------------------
(* The detail slots (checked under SpecDetail) *)

\* C38: whenever an item is active and no detail request is loading, the
\* active progress is the active item's watch_progress (null when it has
\* none), across openItem with success or failure, closeItem and
\* setActiveProgress.
C38_ActiveProgressMatchesItem ==
    (activeItem # EmptyObj /\ ~activeItemLoading)
       => activeProgress = ProgressOf(activeItem)

----------------------------------------------------------------------------
(* Overlapping refresh requests (checked under SpecCooldown) *)

\* C39: a failed refresh request undoes only its own cooldown entry: while a
\* request for an item issued at time t has not failed, no queueing of the
\* item that is not forced issues another request before t + 60 seconds,
\* also when an earlier request for the same item fails after t.
\* (The requests of one item settle in any order; when the oldest settles
\* first, the newest request is outstanding, and has not failed, for as long
\* as any request of the item is in flight.)
C39_FailureUndoesOnlyItsOwnEntry ==
    [][last' = "fetchItemsOk" =>
          \A response \in UnsyncedResponses :
             fetchItemsOk(5, response) =>
                \A i \in 1..Len(response.results) :
                   LET id == response.results[i]["id"]
                   IN  ( /\ shouldRefreshMetadata(response.results[i])
                         /\ InCooldown(id)
                         /\ pending[RefreshRequest(id)] > 0 )
                          => Issued(id) = 0]_vars

----------------------------------------------------------------------------
(* The update notification at login (checked under SpecUpdate) *)

\* C40: at login the update notification is offered only if a newer release
\* exists, its version is not among the ignored versions and the policy
\* allows it: never under 'never', always under 'on_login', under 'daily' or
\* 'weekly' only when last_shown_at is unset or at least 24 hours or 7 days
\* old (the preferences being those the login reads); and once the user has
\* picked 'ignore this version' or 'never' in the prompt and the choice was
\* saved, a login started afterwards with the same latest version offers
\* nothing.
C40_UpdateOfferedOnlyWhenAllowed ==
    [][last' = "updateCheck" =>
          \A latest \in Releases :
             updateCheck(latest) =>
                LET shown == Len(offered') > Len(offered)
                    ignored == { captured.ignored_versions[i] :
                                    i \in 1..Len(captured.ignored_versions) }
                    fresh == latest.is_newer /\ latest.latest_version \notin ignored
                    age == now - captured.last_shown_at
                IN  /\ shown => fresh /\ captured.policy # "never"
                    /\ (shown /\ captured.policy = "daily") =>
                          captured.last_shown_at = NULL \/ age >= 24 * 3600 * 1000
                    /\ (shown /\ captured.policy = "weekly") =>
                          captured.last_shown_at = NULL \/ age >= 7 * 24 * 3600 * 1000
                    /\ (fresh /\ captured.policy = "on_login") => shown
                    /\ ( \/ history.declinedAtSubmit.never
                         \/ latest.latest_version \in history.declinedAtSubmit.versions )
                          => ~shown]_vars

====
